---- MODULE Spec2Model ----
(***************************************************************************)
(* A model of the sWFME process engine (swfme/core): typed parameters,     *)
(* the execute() template method of Process, and the grouped execution of  *)
(* OrchestratedProcess with its connection-resolution passes.  Every       *)
(* action is one block of code between two suspension points (awaits) of   *)
(* the asyncio coroutines.                                                 *)
(***************************************************************************)
EXTENDS Integers, Sequences, FiniteSets, TLC

\* ------------------------------------------------------------------ bounds
\* the largest number of children the root orchestration declares
MaxChildren == 2
\* how many times the caller invokes execute() on the root
MaxRuns == 2
\* integer parameter values are 1..MaxVal
MaxVal == 2
\* the longest (process, mode) list handed to _group_processes on its own
MaxGroupLen == 5
\* the inputs a, b of the test workflows are 0..MaxArg
MaxArg == 10
\* the longest connection list handed to the resolution pass on its own
MaxConns == 2
\* how many times the caller invokes orchestrate() directly
MaxCompose == 2

\* ------------------------------------------------------------- vocabulary
PENDING == "pending"
RUNNING == "running"
COMPLETED == "completed"
FAILED == "failed"
CANCELLED == "cancelled"
ProcessStatus == {PENDING, RUNNING, COMPLETED, FAILED, CANCELLED}

SEQUENTIAL == "sequential"
PARALLEL == "parallel"
ProcessExecutionFlags == {SEQUENTIAL, PARALLEL}

\* Python values: a type tag and a payload
None == <<"NoneType", 0>>
IntV(n) == <<"int", n>>
StrV(n) == <<"str", n>>
\* a list whose elements have the type numbered k (0: int, 1: str)
ListV(k) == <<"list", k>>
Vals == {IntV(n) : n \in 1..MaxVal}

\* ------------------------------------------------------ the process family
\* Root is the orchestration the caller constructs.  Its orchestrate()
\* declares children 1..n; when cfg.nested, child 1 is itself an
\* orchestration whose orchestrate() declares the single child Leaf.
Root == 0
Inner == 1
Leaf == MaxChildren + 1
Procs == 0..Leaf
Name(p) == "P" \o ToString(p)

\* Every process defines one required int input and one required int output
\* (define_parameters); these are the Parameter objects it constructs.  The
\* processes of the test workflows define a second input or output.
In(p) == 2 * p
Out(p) == 2 * p + 1
In2(p) == 2 * Leaf + 2 + 2 * p
Out2(p) == 2 * Leaf + 3 + 2 * p

\* Parameter objects constructed on their own, as the parameter tests do:
\* one per declared type, required and optional.
DeclaredTypes == <<"int", "str", "List[int]">>
FirstStandalone == 4 * Leaf + 4
Standalone == FirstStandalone..(FirstStandalone + 2 * Len(DeclaredTypes) - 1)

Params == 0..(FirstStandalone + 2 * Len(DeclaredTypes) - 1)
ParamName(q) ==
    IF q \in Standalone THEN "param"
    ELSE IF q <= 2 * Leaf + 1 THEN (IF q % 2 = 0 THEN "in" ELSE "out")
    ELSE (IF q % 2 = 0 THEN "in2" ELSE "out2")
required(q) == q \notin Standalone \/ (q - FirstStandalone) % 2 = 0
param_type(q) ==
    IF q \in Standalone THEN DeclaredTypes[((q - FirstStandalone) \div 2) + 1]
    ELSE "int"

VARIABLES
    cfg,          \* the scenario: [modes, nested, alias, runs, flow]
    children,     \* OrchestratedProcess.children, per process
    connections,  \* OrchestratedProcess._param_connections, per process
    defined,      \* OrchestratedProcess._orchestration_defined
    pset,         \* Process.input / Process.output: the Parameter objects, in order
    value,        \* Parameter._value
    locked,       \* Parameter._locked
    status,       \* Process.status
    error,        \* Process.error (<<>> is None)
    pc,           \* where each process's execute() coroutine stands
    groups,       \* execute_impl's local sequential_groups
    gidx,         \* execute_impl's local group_idx
    result,       \* how the last execute() call of a process ended
    exc,          \* the exception an execute() call let escape, or that the
                  \* caller's last call on a parameter raised
    log,          \* EventBus._event_log
    runs,         \* execute() calls the caller has made on Root
    calls,        \* execute() calls on a process since its parent began
    call,         \* the caller's last call on a parameter or parameter set
    subscribers,  \* EventBus._subscribers: the callbacks per event type, in order
    delivered,    \* the events each callback was called with, in order
    metrics,      \* MetricsCollector._metrics: a dict keyed by process id
    aggregated,   \* MetricsCollector._aggregated: a dict keyed by process class
    ret,          \* what the caller's last get_events call returned
    pending       \* the events whose callbacks asyncio.gather has scheduled
                  \* and not run yet, in the order of their emit calls

vars == <<cfg, children, connections, defined, pset, value, locked, status,
          error, pc, groups, gidx, result, exc, log, runs, calls, call,
          subscribers, delivered, metrics, aggregated, ret, pending>>

\* the state of the event bus subscriptions and of the metrics collector
bus == <<subscribers, delivered, metrics, aggregated, ret, pending>>


\* ------------------------------------------------------------- parameters
\* a call of the caller: the method, the Parameter object and the argument
Call(op, q, v) == [op |-> op, param |-> q, arg |-> v]
NoCall == Call("none", 0, None)

\* a type check that accepts every value
accept_all(q, v) == TRUE

\* isinstance(self.param_type, type) and typing.get_origin(self.param_type)
is_class(t) == t \in {"int", "str"}
get_origin(t) == IF t = "List[int]" THEN "list" ELSE "none"

\* Parameter._validate_type: isinstance against the type, or against the
\* origin of a generic type; anything passes for other descriptors
validate_type(q, v) ==
    IF v = None THEN ~required(q)
    ELSE IF is_class(param_type(q)) THEN v[1] = param_type(q)
    ELSE IF get_origin(param_type(q)) # "none"
         THEN v[1] = get_origin(param_type(q))
    ELSE TRUE

\* a setter that checks the type before the lock
SetterErrorTypeFirst(q, v) ==
    IF v = None /\ ~required(q) /\ ~locked[q] THEN "ok"
    ELSE IF ~validate_type(q, v) THEN "TypeError"
    ELSE IF locked[q] THEN "RuntimeError"
    ELSE "ok"

\* Parameter.value setter: the exception a write of v to q raises, or "ok"
SetterError(q, v) ==
    IF locked[q] THEN "RuntimeError"
    ELSE IF v = None /\ ~required(q) THEN "ok"
    ELSE IF ~validate_type(q, v) THEN "TypeError"
    ELSE "ok"

\* str(e) of the exceptions of parameters.py, as a sequence of words
SetterMessage(e, q) ==
    IF e = "RuntimeError"
    THEN <<"Parameter", ParamName(q), "is locked and cannot be modified">>
    ELSE <<"Parameter", ParamName(q), "expects type", param_type(q)>>

\* a validate that fails for every parameter without a value
ValidateErrorUnset(q, val) ==
    IF val[q] = None
    THEN <<"Required parameter", ParamName(q), "is not set">>
    ELSE <<>>

\* Parameter.validate, over the values val: the message of the ValueError, or <<>>
ValidateError(q, val) ==
    IF required(q) /\ val[q] = None
    THEN <<"Required parameter", ParamName(q), "is not set">>
    ELSE <<>>

\* the Parameter objects in the input and output ParameterSet of p
Inputs(ps, p) == {ps[p].in[i] : i \in 1..Len(ps[p].in)}
Outputs(ps, p) == {ps[p].out[i] : i \in 1..Len(ps[p].out)}

\* ParameterSet.validate_all over the parameters S in insertion order: the
\* message of the first failure
validate_all(S, val) ==
    LET bad == {i \in 1..Len(S) : ValidateError(S[i], val) # <<>>} IN
    IF bad = {} THEN <<>>
    ELSE ValidateError(S[CHOOSE i \in bad : \A j \in bad : i <= j], val)

\* unlock_all that unlocks nothing
unlock_none(S, lk) == lk

\* ParameterSet.lock_all / unlock_all
lock_all(S, lk) == [q \in Params |-> IF q \in S THEN TRUE ELSE lk[q]]
unlock_all(S, lk) == [q \in Params |-> IF q \in S THEN FALSE ELSE lk[q]]

\* -------------------------------------------------------------- event bus
max_history == 10000

\* EventBus._max_history: the argument the bus was constructed with, or
\* the default
bus_max_history ==
    IF "max_history" \in DOMAIN cfg THEN cfg.max_history ELSE max_history

\* self.__class__.__name__ of a process
ClassOf(p) ==
    IF p = Root THEN "Workflow"
    ELSE IF p = Inner /\ cfg.nested THEN "SubWorkflow"
    ELSE "Step"

EventTypes ==
    {"process.started", "process.completed", "process.failed",
     "process.group_started", "process.group_completed"}

\* the keys of _subscribers: an event type, or "*" for every event
Keys == EventTypes \cup {"*"}

\* the callbacks: the two of test_handler_error_handling, one more that
\* records what it receives, and the three of the MetricsCollector
Handlers ==
    {"failing_handler", "working_handler", "handler", "_on_process_started",
     "_on_process_completed", "_on_process_failed"}

\* EventBus.__init__ and MetricsCollector.__init__ (without its subscriptions)
BusFresh ==
    /\ subscribers = [k \in Keys |-> <<>>]
    /\ delivered = [h \in Handlers |-> <<>>]
    /\ metrics = <<>>
    /\ aggregated = <<>>
    /\ ret = <<>>
    /\ pending = <<>>

\* the event dict _emit_event builds: the fixed keys, and the keyword
\* arguments kw the caller of _emit_event passed (a key that was not passed
\* holds the filler -1, 0, "" or <<>>)
Event(type, p, st, gi, gsize, mode, err, kw) ==
    [type |-> type, process_id |-> p, process_name |-> Name(p),
     process_class |-> ClassOf(p), status |-> st,
     group_index |-> gi, group_size |-> gsize, execution_mode |-> mode,
     error |-> err, kwargs |-> kw]

ProcessEvent(type, p, st, err, kw) == Event(type, p, st, -1, 0, "", err, kw)

\* an emit that trims the history to its oldest events
emit_keep_oldest(lg, ev) ==
    LET l == Append(lg, ev) IN
    IF Len(l) > bus_max_history THEN SubSeq(l, 1, bus_max_history) ELSE l

\* EventBus.emit: append to the history and trim it to _max_history
emit(lg, ev) ==
    LET l == Append(lg, ev) IN
    IF Len(l) > bus_max_history
    THEN SubSeq(l, Len(l) - bus_max_history + 1, Len(l)) ELSE l

\* whether the callback raises when it is called
Raises(h) == h = "failing_handler"

\* lines 96-105: the callbacks emit collects for an event of type t
collect(subs, t) ==
    (IF t \in DOMAIN subs THEN subs[t] ELSE <<>>)
        \o (IF "*" \in DOMAIN subs THEN subs["*"] ELSE <<>>)

\* callbacks awaited one after the other with no protection: the positions
\* of hs that are called
awaited_in_turn(hs) ==
    {i \in 1..Len(hs) : \A j \in 1..(i - 1) : ~Raises(hs[j])}

\* lines 108-122: the positions of hs whose callback is called; gather runs
\* every _call_handler to its end, and _call_handler catches the exception
\* of its callback
gathered(hs) == 1..Len(hs)

\* MetricsCollector._update_aggregated: the counters of the class cls after
\* an execution that ended with the status st (the execution times are
\* left out)
update_aggregated(agg, cls, st) ==
    LET old == IF cls \in DOMAIN agg THEN agg[cls]
               ELSE [total_executions |-> 0, successful_executions |-> 0,
                     failed_executions |-> 0]
        new == [total_executions |-> old.total_executions + 1,
                successful_executions |->
                    old.successful_executions + (IF st = "completed" THEN 1 ELSE 0),
                failed_executions |->
                    old.failed_executions + (IF st = "failed" THEN 1 ELSE 0)]
    IN [c \in DOMAIN agg \cup {cls} |-> IF c = cls THEN new ELSE agg[c]]

\* MetricsCollector._on_process_started: a new entry for the process id
on_process_started(ev, st) ==
    [st EXCEPT !.metrics =
        [p \in DOMAIN st.metrics \cup {ev.process_id} |->
            IF p = ev.process_id
            THEN [process_class |-> ev.process_class, status |-> "running",
                  error |-> <<>>]
            ELSE st.metrics[p]]]

\* MetricsCollector._on_process_completed: nothing for an unknown process
\* id; else the status of the entry, then the counters of its class
on_process_completed(ev, st) ==
    IF ev.process_id \notin DOMAIN st.metrics THEN st
    ELSE LET m == st.metrics[ev.process_id] IN
         [st EXCEPT
            !.metrics = [@ EXCEPT ![ev.process_id] =
                            [m EXCEPT !.status = "completed"]],
            !.aggregated = update_aggregated(@, m.process_class, "completed")]

\* a failed handler that records the status only
on_process_failed_status_only(ev, st) ==
    IF ev.process_id \notin DOMAIN st.metrics THEN st
    ELSE LET m == st.metrics[ev.process_id] IN
         [st EXCEPT
            !.metrics = [@ EXCEPT ![ev.process_id] =
                            [m EXCEPT !.status = "failed"]],
            !.aggregated = update_aggregated(@, m.process_class, "failed")]

\* a failed handler that leaves the counters alone
on_process_failed_uncounted(ev, st) ==
    IF ev.process_id \notin DOMAIN st.metrics THEN st
    ELSE [st EXCEPT
            !.metrics = [@ EXCEPT ![ev.process_id] =
                            [@ EXCEPT !.status = "failed", !.error = ev.error]]]

\* MetricsCollector._on_process_failed: nothing for an unknown process id;
\* else the status and the error of the entry, then the counters
on_process_failed(ev, st) ==
    IF ev.process_id \notin DOMAIN st.metrics THEN st
    ELSE LET m == st.metrics[ev.process_id] IN
         [st EXCEPT
            !.metrics = [@ EXCEPT ![ev.process_id] =
                            [m EXCEPT !.status = "failed", !.error = ev.error]],
            !.aggregated = update_aggregated(@, m.process_class, "failed")]

\* what calling the callback h with the event ev does to the callbacks'
\* records and to the metrics collector
handle(h, ev, st) ==
    LET called == [st EXCEPT !.delivered = [@ EXCEPT ![h] = Append(@, ev)]] IN
    IF h = "_on_process_started" THEN on_process_started(ev, called)
    ELSE IF h = "_on_process_completed" THEN on_process_completed(ev, called)
    ELSE IF h = "_on_process_failed" THEN on_process_failed(ev, called)
    ELSE called

\* the callbacks hs from position i on, called in order with the event ev
\* where run holds their position
RECURSIVE deliver(_, _, _, _, _)
deliver(hs, run, i, ev, st) ==
    IF i > Len(hs) THEN st
    ELSE deliver(hs, run, i + 1, ev,
                 IF i \in run THEN handle(hs[i], ev, st) ELSE st)

\* await event_bus.emit(event) up to the await of line 109: the event is
\* appended and the history trimmed, and when callbacks are subscribed to
\* its type or to "*", gather schedules them and emit suspends
Publish(ev) ==
    /\ log' = emit(log, ev)
    /\ pending' = IF collect(subscribers, ev.type) = <<>> THEN pending
                  ELSE Append(pending, ev)
    /\ UNCHANGED <<subscribers, delivered, metrics, aggregated, ret>>

\* the await of event_bus.emit in _emit_event (line 229) has returned for
\* every event of p: the callbacks of its events have run
EmitReturned(p) == \A i \in 1..Len(pending) : pending[i].process_id # p

\* ----------------------------------------------------------- orchestration
IsOrch(p) == p = Root \/ (p = Inner /\ cfg.nested)
ParentOf(c) == IF c = Leaf THEN Inner ELSE Root

\* What the subclass's orchestrate() declares: the children in order.
Blueprint(p) ==
    IF p = Root THEN [i \in 1..Len(cfg.modes) |-> <<i, cfg.modes[i]>>]
    ELSE << <<Leaf, SEQUENTIAL>> >>

\* The declaration index of the last child of the group before child i's
\* group (0 when child i is in the first group).
RECURSIVE PrevIdx(_, _)
PrevIdx(bp, i) ==
    IF i = 1 THEN 0
    ELSE IF bp[i][2] = SEQUENTIAL THEN i - 1
    ELSE IF bp[i - 1][2] = SEQUENTIAL THEN i - 1
    ELSE PrevIdx(bp, i - 1)

\* The parameter feeding child i: the output of the previous group's last
\* child, or the orchestration's own input for the first group.
SrcOf(p, bp, i) ==
    LET j == PrevIdx(bp, i) IN IF j = 0 THEN pset[p].in[1] ELSE Out(bp[j][1])

\* an orchestrate() that connects each child's output to the other output
ParallelConnectionsCrossed ==
    << <<In(Root), In(1)>>, <<In2(Root), In2(1)>>, <<In(Root), In(2)>>,
       <<In2(Root), In2(2)>>, <<Out(1), Out2(Root)>>, <<Out(2), Out(Root)>> >>

\* SimpleOrchestration.orchestrate: the _connect_param calls, in order
SimpleConnections ==
    << <<In(Root), In(1)>>, <<In2(Root), In2(1)>>, <<Out(1), In(2)>>,
       <<Out(2), Out(Root)>> >>

\* ParallelOrchestration.orchestrate: the _connect_param calls, in order
ParallelConnections ==
    << <<In(Root), In(1)>>, <<In2(Root), In2(1)>>, <<In(Root), In(2)>>,
       <<In2(Root), In2(2)>>, <<Out(1), Out(Root)>>, <<Out(2), Out2(Root)>> >>

\* DataProcessingPipeline.orchestrate, cut down to its first two steps:
\* the input feeds load (child 1), load's output feeds transform (child 2),
\* and the outputs of the pipeline are fed from the last step and from load
PipelineConnections ==
    << <<In(Root), In(1)>>, <<Out(1), In(2)>>, <<Out(2), Out(Root)>>,
       <<Out(1), Out2(Root)>> >>

\* orchestrate() written with _connect_param: the connections it appends
NewConnections(p) ==
    LET bp == Blueprint(p) IN
    IF cfg.flow = "simple" THEN SimpleConnections
    ELSE IF cfg.flow = "parallel" THEN ParallelConnections
    ELSE IF cfg.flow = "pipeline" THEN PipelineConnections
    ELSE [i \in 1..Len(bp) |-> <<SrcOf(p, bp, i), pset[bp[i][1]].in[1]>>]
         \o (IF Len(bp) = 0 THEN <<>>
             ELSE << <<pset[bp[Len(bp)][1]].out[1], pset[p].out[1]>> >>)

\* the values after orchestrate(): SimpleOrchestration writes 2 to the
\* factor of its Multiply child
OrchestratedValues(p) ==
    IF cfg.flow = "simple" /\ ~defined[p]
    THEN [value EXCEPT ![In2(2)] = IntV(2)]
    ELSE value

\* orchestrate() written with item assignment (child.input[n] = source):
\* the ParameterSets afterwards, holding the source objects themselves
AliasedSets(p) ==
    LET bp == Blueprint(p)
        kids == {bp[i][1] : i \in 1..Len(bp)}
        idx(c) == CHOOSE i \in 1..Len(bp) : bp[i][1] = c
    IN [r \in Procs |->
          IF r \in kids THEN [pset[r] EXCEPT !.in = <<SrcOf(p, bp, idx(r))>>]
          ELSE IF r = p /\ Len(bp) > 0
               THEN [pset[r] EXCEPT !.out = <<Out(bp[Len(bp)][1])>>]
          ELSE pset[r]]

\* _group_processes without the flush after the loop
RECURSIVE GroupLoopNoFlush(_, _, _, _)
GroupLoopNoFlush(ch, i, gs, cur) ==
    IF i > Len(ch)
    THEN gs
    ELSE IF ch[i][2] = SEQUENTIAL
         THEN GroupLoopNoFlush(ch, i + 1,
                               Append(IF cur # <<>> THEN Append(gs, cur) ELSE gs,
                                      <<ch[i][1]>>),
                               <<>>)
         ELSE GroupLoopNoFlush(ch, i + 1, gs, Append(cur, ch[i][1]))

group_processes_no_flush(ch) == GroupLoopNoFlush(ch, 1, <<>>, <<>>)

\* OrchestratedProcess._group_processes, as the loop computes it: i is the
\* position in children, gs the groups so far, cur current_parallel_group
RECURSIVE GroupLoop(_, _, _, _)
GroupLoop(ch, i, gs, cur) ==
    IF i > Len(ch)
    THEN IF cur # <<>> THEN Append(gs, cur) ELSE gs
    ELSE IF ch[i][2] = SEQUENTIAL
         THEN GroupLoop(ch, i + 1,
                        Append(IF cur # <<>> THEN Append(gs, cur) ELSE gs,
                               <<ch[i][1]>>),
                        <<>>)
         ELSE GroupLoop(ch, i + 1, gs, Append(cur, ch[i][1]))

group_processes(ch) == GroupLoop(ch, 1, <<>>, <<>>)

\* a resolution loop in which a source without a value clears the target
RECURSIVE resolve_null_copied(_, _, _)
resolve_null_copied(conns, i, val) ==
    IF i > Len(conns) THEN [val |-> val, err |-> <<>>]
    ELSE LET s == conns[i][1]
             t == conns[i][2]
         IN IF val[s] = None
            THEN resolve_null_copied(conns, i + 1, [val EXCEPT ![t] = None])
            ELSE IF SetterError(t, val[s]) # "ok"
                 THEN [val |-> val,
                       err |-> SetterMessage(SetterError(t, val[s]), t)]
            ELSE resolve_null_copied(conns, i + 1, [val EXCEPT ![t] = val[s]])

\* The connection-resolution loop of execute_impl from connection i on:
\* the values afterwards and the message of the exception that ended it
RECURSIVE resolve(_, _, _)
resolve(conns, i, val) ==
    IF i > Len(conns) THEN [val |-> val, err |-> <<>>]
    ELSE LET s == conns[i][1]
             t == conns[i][2]
         IN IF val[s] = None THEN resolve(conns, i + 1, val)
            ELSE IF SetterError(t, val[s]) # "ok"
                 THEN [val |-> val,
                       err |-> SetterMessage(SetterError(t, val[s]), t)]
            ELSE resolve(conns, i + 1, [val EXCEPT ![t] = val[s]])

\* f"Process '{process.name}' failed: {text}"
ChildFailure(c, text) == <<"Process", Name(c), "failed:">> \o text

Range(s) == {s[i] : i \in 1..Len(s)}

\* ------------------------------------------------- Process.execute, pieces
HandlerError == <<"handler error">>

\* lines 155-158: status RUNNING and the started event, for process p
Begin(p) ==
    /\ status' = [status EXCEPT ![p] = RUNNING]
    /\ Publish(ProcessEvent("process.started", p, RUNNING, <<>>, {}))

\* lines 183-193: the except block up to the await of the failed event
Fail(p, msg) ==
    /\ status' = [status EXCEPT ![p] = FAILED]
    /\ error' = [error EXCEPT ![p] = msg]
    /\ Publish(ProcessEvent("process.failed", p, FAILED, msg, {"error"}))
    /\ pc' = [pc EXCEPT ![p] = "failing"]

\* lines 173-179: status COMPLETED up to the await of the completed event
Complete(p) ==
    /\ status' = [status EXCEPT ![p] = COMPLETED]
    /\ Publish(ProcessEvent("process.completed", p, COMPLETED, <<>>, {}))
    /\ pc' = [pc EXCEPT ![p] = "completing"]
    /\ UNCHANGED error

\* lines 170-179 or 183-193 after execute_impl ended without an exception,
\* with the values val and the output parameters outs
Validated(p, outs, val) ==
    IF validate_all(outs, val) # <<>>
    THEN Fail(p, validate_all(outs, val))
    ELSE Complete(p)

\* a final pass that fills only the targets that hold no value yet
FinishUnsetOnly(p, conns, outs) ==
    LET unset(c) == value[c[2]] = None
        r == resolve(SelectSeq(conns, unset), 1, value) IN
    /\ value' = r.val
    /\ IF r.err # <<>> THEN Fail(p, r.err) ELSE Validated(p, outs, r.val)

\* lines 458-461 and what follows them in execute: the final resolution
\* pass over conns, then the validation of the outputs outs
Finish(p, conns, outs) ==
    LET r == resolve(conns, 1, value) IN
    /\ value' = r.val
    /\ IF r.err # <<>> THEN Fail(p, r.err) ELSE Validated(p, outs, r.val)

\* a resolution pass that runs before the first group only
ResolveBeforeFirstGroup(p) ==
    IF gidx[p] = 0 THEN resolve(connections[p], 1, value)
    ELSE [val |-> value, err |-> <<>>]

\* a result check that misses the exceptions asyncio.gather returns
SucceededUnlessFalse(r) == r # "false"

\* a wait that ends with the first member that failed
FirstFailureEnds(g) ==
    \/ \A i \in 1..Len(g) : pc[g[i]] = "idle"
    \/ \E i \in 1..Len(g) : pc[g[i]] = "idle" /\ result[g[i]] # "true"

\* lines 423-426: the resolution pass before the current group of p
ResolveBeforeGroup(p) == resolve(connections[p], 1, value)

\* line 433, lines 444-448: whether the result of a member's execute()
\* lets the orchestration go on
Succeeded(r) == r = "true"

\* lines 431 and 440: the awaits in execute_impl return once every
\* member of the group g has ended its execute()
GroupFinished(g) == \A i \in 1..Len(g) : pc[g[i]] = "idle"

\* a check of the results that reports the last failure
last_failure(bad) == CHOOSE i \in bad : \A j \in bad : j <= i

\* lines 433 and 443-451: the results are checked in the order of the
\* group, and the first one that is not a success raises
first_failure(bad) == CHOOSE i \in bad : \A j \in bad : i <= j

\* a group_started event that reports every group as sequential
GroupStartedSequential(p, gi, g) ==
    Event("process.group_started", p, status[p], gi, Len(g), "sequential", <<>>,
          {"group_index", "group_size", "execution_mode"})

\* lines 415-420: the group_started event of group gi of p, the processes g
GroupStarted(p, gi, g) ==
    Event("process.group_started", p, status[p], gi, Len(g),
          IF Len(g) > 1 THEN "parallel" ELSE "sequential", <<>>,
          {"group_index", "group_size", "execution_mode"})

\* The computation of the atomic processes: the next value, cyclically.
Compute(v) == IntV((v[2] % MaxVal) + 1)

\* atomic processes that all add their two inputs
ComputedSum(p) ==
    IntV(value[pset[p].in[1]][2] + value[pset[p].in[2]][2])

\* What execute_impl of the atomic process p writes to its output: in the
\* test workflows child 1 is SimpleAddProcess and child 2 MultiplyProcess.
Computed(p) ==
    IF cfg.flow \in {"generic", "pipeline", "mistyped"}
    THEN Compute(value[pset[p].in[1]])
    ELSE IF p = 1 THEN IntV(value[pset[p].in[1]][2] + value[pset[p].in[2]][2])
    ELSE IntV(value[pset[p].in[1]][2] * value[pset[p].in[2]][2])

\* self.orchestrate(), lines 366-388 as the subclass writes it: add_child
\* for every declared child, and _connect_param or item assignment
Orchestrate(p) ==
    /\ children' = [children EXCEPT ![p] = @ \o Blueprint(p)]
    /\ IF cfg.alias
       THEN pset' = AliasedSets(p) /\ UNCHANGED connections
       ELSE /\ connections' = [connections EXCEPT ![p] = @ \o NewConnections(p)]
            /\ UNCHANGED pset

\* a guard that never finds the orchestration defined
never_defined(p) == FALSE

\* line 403: self._orchestration_defined
orchestration_defined(p) == defined[p]

\* ---------------------------------------------------------------- actions
\* The caller invokes execute() on the root: lines 153-158.
Execute ==
    /\ pc[Root] = "idle"
    /\ runs < cfg.runs
    /\ runs' = runs + 1
    /\ Begin(Root)
    /\ pc' = [pc EXCEPT ![Root] = "started"]
    /\ result' = [result EXCEPT ![Root] = "none"]
    /\ calls' = [calls EXCEPT ![Root] = @ + 1]
    /\ UNCHANGED <<call, cfg, children, connections, defined, pset, value, locked,
                   error, groups, gidx, exc>>

\* The caller writes v to the root's input through the value setter; a
\* raised RuntimeError or TypeError leaves the value as it was.
SetValue(v) ==
    /\ runs < cfg.runs \/ pc[Root] # "idle"
    /\ value[In(Root)] # v
    /\ value' = IF SetterError(In(Root), v) = "ok"
                THEN [value EXCEPT ![In(Root)] = v] ELSE value
    /\ UNCHANGED <<bus, call, cfg, children, connections, defined, pset, locked, status,
                   error, pc, groups, gidx, result, exc, log, runs, calls>>

\* A task that asyncio.gather created runs its first block (lines 153-158);
\* tasks start in the order gather created them.
TaskStart(c) ==
    /\ pc[c] = "ready"
    /\ \A d \in Procs : (d < c /\ ParentOf(d) = ParentOf(c)) => pc[d] # "ready"
    /\ Begin(c)
    /\ pc' = [pc EXCEPT ![c] = "started"]
    /\ calls' = [calls EXCEPT ![c] = @ + 1]
    /\ UNCHANGED <<call, cfg, children, connections, defined, pset, value, locked,
                   error, groups, gidx, result, exc, runs>>

\* A handler registered with Process.on raises while _emit_event awaits it
\* (line 234).  Inside the try block the exception reaches the except
\* block; raised by a handler of the failed event it leaves execute().
HandlerRaises(p) ==
    \/ /\ pc[p] \in {"started", "gs", "gc", "completing"}
       /\ EmitReturned(p)
       /\ Fail(p, HandlerError)
       /\ UNCHANGED <<call, cfg, children, connections, defined, pset, value,
                      locked, groups, gidx, result, exc, runs, calls>>
    \/ /\ pc[p] = "failing"
       /\ EmitReturned(p)
       /\ locked' = unlock_all(Inputs(pset, p), locked)
       /\ pc' = [pc EXCEPT ![p] = "idle"]
       /\ result' = [result EXCEPT ![p] = "raised"]
       /\ exc' = [exc EXCEPT ![p] = HandlerError]
       /\ UNCHANGED <<bus, call, cfg, children, connections, defined, pset, value,
                      status, error, groups, gidx, log, runs, calls>>

\* input.validate_all() raises (line 161)
InputInvalid(p) ==
    /\ pc[p] = "started"
    /\ EmitReturned(p)
    /\ validate_all(pset[p].in, value) # <<>>
    /\ Fail(p, validate_all(pset[p].in, value))
    /\ UNCHANGED <<call, cfg, children, connections, defined, pset, value, locked,
                   groups, gidx, result, exc, runs, calls>>

\* An atomic process passes validation, locks its inputs and enters
\* execute_impl (lines 161-167), which suspends.
AtomicBegin(p) ==
    /\ pc[p] = "started"
    /\ EmitReturned(p)
    /\ ~IsOrch(p)
    /\ validate_all(pset[p].in, value) = <<>>
    /\ locked' = lock_all(Inputs(pset, p), locked)
    /\ pc' = [pc EXCEPT ![p] = "impl"]
    /\ UNCHANGED <<bus, call, cfg, children, connections, defined, pset, value, status,
                   error, groups, gidx, result, exc, log, runs, calls>>

\* execute_impl of an atomic process computes its output from its input,
\* writes it and returns.
AtomicSucceed(p) ==
    /\ pc[p] = "impl"
    /\ LET outq == pset[p].out[1]
           v == Computed(p)
       IN
       IF SetterError(outq, v) # "ok"
       THEN /\ Fail(p, SetterMessage(SetterError(outq, v), outq))
            /\ UNCHANGED value
       ELSE /\ value' = [value EXCEPT ![outq] = v]
            /\ Validated(p, pset[p].out, [value EXCEPT ![outq] = v])
    /\ UNCHANGED <<call, cfg, children, connections, defined, pset, locked, groups,
                   gidx, result, exc, runs, calls>>

\* execute_impl of an atomic process raises.
AtomicRaise(p) ==
    /\ pc[p] = "impl"
    /\ Fail(p, <<"boom">>)
    /\ UNCHANGED <<call, cfg, children, connections, defined, pset, value, locked,
                   groups, gidx, result, exc, runs, calls>>

\* execute_impl of an atomic process returns without writing its output.
AtomicSkipOutput(p) ==
    /\ pc[p] = "impl"
    /\ Validated(p, pset[p].out, value)
    /\ UNCHANGED <<call, cfg, children, connections, defined, pset, value, locked,
                   groups, gidx, result, exc, runs, calls>>

\* execute() returns after the terminal event: True after completed, False
\* after failed; the finally block unlocks the inputs (lines 181, 195-199).
Return(p) ==
    /\ pc[p] \in {"completing", "failing"}
    /\ EmitReturned(p)
    /\ result' = [result EXCEPT
                    ![p] = IF pc[p] = "completing" THEN "true" ELSE "false"]
    /\ locked' = unlock_all(Inputs(pset, p), locked)
    /\ pc' = [pc EXCEPT ![p] = "idle"]
    /\ UNCHANGED <<bus, call, cfg, children, connections, defined, pset, value, status,
                   error, groups, gidx, exc, log, runs, calls>>

\* An orchestration passes validation, locks its inputs and enters
\* execute_impl (lines 161-167, 403-420): orchestrate() on the first
\* execution, the grouping, and the first group_started event; with no
\* group at all execute_impl runs to its end (lines 458-461).
OrchBegin(p) ==
    /\ pc[p] = "started"
    /\ EmitReturned(p)
    /\ IsOrch(p)
    /\ validate_all(pset[p].in, value) = <<>>
    /\ locked' = lock_all(Inputs(pset, p), locked)
    /\ defined' = [defined EXCEPT ![p] = TRUE]
    /\ IF orchestration_defined(p)
       THEN UNCHANGED <<children, connections, pset>>
       ELSE Orchestrate(p)
    /\ groups' = [groups EXCEPT ![p] = group_processes(children'[p])]
    /\ calls' = [c \in Procs |->
                   IF \E i \in 1..Len(children'[p]) : children'[p][i][1] = c
                   THEN 0 ELSE calls[c]]
    /\ IF groups'[p] = <<>>
       THEN /\ Finish(p, connections'[p], pset'[p].out)
            /\ UNCHANGED gidx
       ELSE /\ Publish(GroupStarted(p, 0, groups'[p][1]))
            /\ pc' = [pc EXCEPT ![p] = "gs"]
            /\ gidx' = [gidx EXCEPT ![p] = 0]
            /\ value' = OrchestratedValues(p)
            /\ UNCHANGED <<status, error>>
    /\ UNCHANGED <<call, cfg, result, exc, runs>>

\* After the group_started event: the resolution pass (lines 423-426) and
\* the start of the group (lines 428-440).  A single member's execute() is
\* called directly and runs to its first await; several members become
\* tasks of asyncio.gather.
ResolveAndLaunch(p) ==
    /\ pc[p] = "gs"
    /\ EmitReturned(p)
    /\ LET r == ResolveBeforeGroup(p)
           g == groups[p][gidx[p] + 1]
       IN /\ value' = r.val
          /\ IF r.err # <<>>
             THEN Fail(p, r.err) /\ UNCHANGED <<result, calls>>
             ELSE IF Len(g) = 1
             THEN /\ Begin(g[1])
                  /\ pc' = [pc EXCEPT ![p] = "wait", ![g[1]] = "started"]
                  /\ calls' = [calls EXCEPT ![g[1]] = @ + 1]
                  /\ result' = [result EXCEPT ![g[1]] = "none"]
                  /\ UNCHANGED error
             ELSE /\ pc' = [c \in Procs |->
                              IF c = p THEN "wait"
                              ELSE IF c \in Range(g) THEN "ready" ELSE pc[c]]
                  /\ result' = [c \in Procs |->
                                  IF c \in Range(g) THEN "none" ELSE result[c]]
                  /\ UNCHANGED <<bus, status, error, log, calls>>
    /\ UNCHANGED <<call, cfg, children, connections, defined, pset, locked, groups,
                   gidx, exc, runs>>

\* Every member of the current group has ended its execute(): the results
\* are inspected in declaration order (lines 431-451), then group_completed
\* is emitted (lines 453-456).  An exception that left the execute() of a
\* single member passes through execute_impl unchanged.
GroupDone(p) ==
    /\ pc[p] = "wait"
    /\ LET g == groups[p][gidx[p] + 1]
           bad == {i \in 1..Len(g) : ~Succeeded(result[g[i]])}
       IN /\ GroupFinished(g)
          /\ IF bad = {}
             THEN /\ Publish(Event("process.group_completed", p, status[p],
                                    gidx[p], 0, "", <<>>, {"group_index"}))
                  /\ pc' = [pc EXCEPT ![p] = "gc"]
                  /\ UNCHANGED <<status, error>>
             ELSE LET c == g[first_failure(bad)] IN
                  Fail(p, IF result[c] = "raised"
                          THEN IF Len(g) = 1 THEN exc[c]
                               ELSE ChildFailure(c, exc[c])
                          ELSE ChildFailure(c, error[c]))
    /\ UNCHANGED <<call, cfg, children, connections, defined, pset, value, locked,
                   groups, gidx, result, exc, runs, calls>>

\* After the group_completed event: the next iteration of the loop over the
\* groups (lines 414-420), or after the last group the final resolution
\* pass and the end of execute (lines 458-461, 170-179).
NextGroup(p) ==
    /\ pc[p] = "gc"
    /\ EmitReturned(p)
    /\ IF gidx[p] + 1 < Len(groups[p])
       THEN /\ gidx' = [gidx EXCEPT ![p] = @ + 1]
            /\ Publish(GroupStarted(p, gidx[p] + 1, groups[p][gidx[p] + 2]))
            /\ pc' = [pc EXCEPT ![p] = "gs"]
            /\ UNCHANGED <<value, status, error>>
       ELSE /\ Finish(p, connections[p], pset[p].out)
            /\ UNCHANGED gidx
    /\ UNCHANGED <<call, cfg, children, connections, defined, pset, locked, groups,
                   result, exc, runs, calls>>

\* ---------------------------------------------------------- specification
ModeLists == UNION {[1..k -> ProcessExecutionFlags] : k \in 0..MaxChildren}

\* whether some group of the mode list m has more than one member
HasParallelGroup(m) ==
    \E i \in 1..(Len(m) - 1) : m[i] = PARALLEL /\ m[i + 1] = PARALLEL

\* The scenarios: the children the root declares and their modes, whether
\* child 1 is an orchestration (only beside single-process groups), whether
\* orchestrate() connects or aliases, and how often the caller executes the
\* root (more than once only for a root whose groups are all single atomic
\* processes).
Configs ==
    {c \in [modes : ModeLists, nested : BOOLEAN, alias : BOOLEAN,
            runs : 1..MaxRuns, flow : {"generic"}] :
        /\ c.nested => Len(c.modes) >= 1
        /\ c.nested => ~HasParallelGroup(c.modes)
        /\ c.runs > 1 => ~c.nested /\ ~HasParallelGroup(c.modes)}

\* the required str Parameter: the input that child 2 defines in the
\* orchestration whose connections do not fit its type
StrIn == FirstStandalone + 2

\* define_parameters of every process: the root and the two children of
\* the test workflows have two inputs, ParallelOrchestration and the
\* pipeline two outputs
DefinedParameters ==
    [p \in Procs |->
        IF cfg.flow = "mistyped" /\ p = 2
        THEN [in |-> <<StrIn>>, out |-> <<Out(p)>>]
        ELSE IF cfg.flow \in {"generic", "mistyped"} \/ p = Leaf
        THEN [in |-> <<In(p)>>, out |-> <<Out(p)>>]
        ELSE IF cfg.flow = "pipeline"
        THEN [in |-> <<In(p)>>,
              out |-> IF p = Root THEN <<Out(p), Out2(p)>> ELSE <<Out(p)>>]
        ELSE [in |-> <<In(p), In2(p)>>,
              out |-> IF p = Root /\ cfg.flow = "parallel"
                      THEN <<Out(p), Out2(p)>> ELSE <<Out(p)>>]]

\* The state after construction: Process.__init__ and
\* OrchestratedProcess.__init__ for every process orchestrate() will make.
Fresh ==
    /\ connections = [p \in Procs |-> <<>>]
    /\ defined = [p \in Procs |-> FALSE]
    /\ pset = DefinedParameters
    /\ value = [q \in Params |-> None]
    /\ locked = [q \in Params |-> FALSE]
    /\ status = [p \in Procs |-> PENDING]
    /\ error = [p \in Procs |-> <<>>]
    /\ pc = [p \in Procs |-> "idle"]
    /\ groups = [p \in Procs |-> <<>>]
    /\ gidx = [p \in Procs |-> 0]
    /\ result = [p \in Procs |-> "none"]
    /\ exc = [p \in Procs |-> <<>>]
    /\ log = <<>>
    /\ runs = 0
    /\ calls = [p \in Procs |-> 0]
    /\ call = NoCall
    /\ BusFresh

Constructed ==
    /\ children = [p \in Procs |-> <<>>]
    /\ Fresh

Init ==
    /\ cfg \in Configs
    /\ Constructed

Next ==
    \/ Execute
    \/ \E v \in Vals : SetValue(v)
    \/ \E p \in Procs :
          \/ TaskStart(p)
          \/ HandlerRaises(p)
          \/ InputInvalid(p)
          \/ AtomicBegin(p)
          \/ AtomicSucceed(p)
          \/ AtomicRaise(p)
          \/ AtomicSkipOutput(p)
          \/ Return(p)
          \/ OrchBegin(p)
          \/ ResolveAndLaunch(p)
          \/ GroupDone(p)
          \/ NextGroup(p)

Spec == Init /\ [][Next]_vars

\* The caller executes the root once.
InitOnce ==
    /\ cfg \in {c \in Configs : c.runs = 1}
    /\ Constructed

SpecOnce == InitOnce /\ [][Next]_vars

\* ---------------------------------------------------- the test workflows
\* SimpleOrchestration (Add, then Multiply by 2) and ParallelOrchestration
\* (Add and Multiply in one parallel group), executed once as the tests do:
\* the caller writes a and b, then calls execute().
Workflows ==
    {[modes |-> <<SEQUENTIAL, SEQUENTIAL>>, nested |-> FALSE, alias |-> FALSE,
      runs |-> 1, flow |-> "simple"],
     [modes |-> <<PARALLEL, PARALLEL>>, nested |-> FALSE, alias |-> FALSE,
      runs |-> 1, flow |-> "parallel"]}

InitFlow ==
    /\ cfg \in Workflows
    /\ Constructed

\* workflow.input["a"].value = a; workflow.input["b"].value = b
SetInputs(a, b) ==
    /\ runs = 0
    /\ value[In(Root)] = None
    /\ SetterError(In(Root), IntV(a)) = "ok"
    /\ SetterError(In2(Root), IntV(b)) = "ok"
    /\ value' = [value EXCEPT ![In(Root)] = IntV(a), ![In2(Root)] = IntV(b)]
    /\ UNCHANGED <<bus, call, cfg, children, connections, defined, pset, locked, status,
                   error, pc, groups, gidx, result, exc, log, runs, calls>>

\* await workflow.execute(), after the inputs were written
ExecuteWorkflow ==
    /\ value[In(Root)] # None
    /\ Execute

NextFlow ==
    \/ \E a \in 0..MaxArg : \E b \in 0..MaxArg : SetInputs(a, b)
    \/ ExecuteWorkflow
    \/ \E p \in Procs :
          \/ TaskStart(p)
          \/ AtomicBegin(p)
          \/ AtomicSucceed(p)
          \/ Return(p)
          \/ OrchBegin(p)
          \/ ResolveAndLaunch(p)
          \/ GroupDone(p)
          \/ NextGroup(p)

SpecFlow == InitFlow /\ [][NextFlow]_vars

\* ------------------------------------------------- the example pipeline
\* DataProcessingPipeline with two sequential steps, executed up to MaxRuns
\* times; a step may raise, as ProcessLoadData does for a file it cannot
\* read.
InitPipeline ==
    /\ \E n \in 1..MaxRuns :
          cfg = [modes |-> <<SEQUENTIAL, SEQUENTIAL>>, nested |-> FALSE,
                 alias |-> FALSE, runs |-> n, flow |-> "pipeline"]
    /\ Constructed

NextPipeline ==
    \/ Execute
    \/ \E v \in Vals : SetValue(v)
    \/ \E p \in Procs :
          \/ InputInvalid(p)
          \/ AtomicBegin(p)
          \/ AtomicSucceed(p)
          \/ AtomicRaise(p)
          \/ AtomicSkipOutput(p)
          \/ Return(p)
          \/ OrchBegin(p)
          \/ ResolveAndLaunch(p)
          \/ GroupDone(p)
          \/ NextGroup(p)

SpecPipeline == InitPipeline /\ [][NextPipeline]_vars

\* --------------------------------------- connections of the wrong type
\* An orchestration of two children whose second child defines a str
\* input, while orchestrate() connects an int parameter to it: the output
\* of child 1 (sequential children) or the root's input (parallel ones).
InitMistyped ==
    /\ \E m \in {<<SEQUENTIAL, SEQUENTIAL>>, <<PARALLEL, PARALLEL>>} :
       \E n \in 1..MaxRuns :
          cfg = [modes |-> m, nested |-> FALSE, alias |-> FALSE, runs |-> n,
                 flow |-> "mistyped"]
    /\ Constructed

NextMistyped ==
    \/ Execute
    \/ \E v \in Vals : SetValue(v)
    \/ \E p \in Procs :
          \/ HandlerRaises(p)
          \/ InputInvalid(p)
          \/ AtomicBegin(p)
          \/ AtomicSucceed(p)
          \/ AtomicRaise(p)
          \/ AtomicSkipOutput(p)
          \/ Return(p)
          \/ OrchBegin(p)
          \/ ResolveAndLaunch(p)
          \/ GroupDone(p)
          \/ NextGroup(p)

SpecMistyped == InitMistyped /\ [][NextMistyped]_vars

\* ------------------------------------------- _group_processes on its own
\* Every (process, mode) list of up to MaxGroupLen children p1, p2, ...
ChildLists ==
    UNION {{[i \in 1..k |-> <<i, m[i]>>] : m \in [1..k -> ProcessExecutionFlags]} :
             k \in 0..MaxGroupLen}

InitGroup ==
    /\ cfg = [modes |-> <<>>, nested |-> FALSE, alias |-> FALSE, runs |-> 1,
              flow |-> "generic"]
    /\ \E l \in ChildLists :
          children = [p \in Procs |-> IF p = Root THEN l ELSE <<>>]
    /\ Fresh

\* self._group_processes() on the root
GroupCall ==
    /\ pc[Root] = "idle"
    /\ groups' = [groups EXCEPT ![Root] = group_processes(children[Root])]
    /\ pc' = [pc EXCEPT ![Root] = "grouped"]
    /\ UNCHANGED <<bus, call, cfg, children, connections, defined, pset, value, locked,
                   status, error, gidx, result, exc, log, runs, calls>>

SpecGroup == InitGroup /\ [][GroupCall]_vars

\* ------------------------------------- the resolution pass on its own
\* The loop of lines 423-426 over any list of up to MaxConns connections
\* among three int parameters, whatever their values and lock states
\* (Parameter.lock is public, and execute locks the inputs of a process).
ResolveParams == {Out(1), In(2), Out(Root)}

ConnLists ==
    LET pairs == {c \in ResolveParams \X ResolveParams : c[1] # c[2]} IN
    UNION {[1..k -> pairs] : k \in 0..MaxConns}

InitResolve ==
    /\ cfg = [modes |-> <<>>, nested |-> FALSE, alias |-> FALSE, runs |-> 1,
              flow |-> "generic"]
    /\ children = [p \in Procs |-> <<>>]
    /\ \E l \in ConnLists :
          connections = [p \in Procs |-> IF p = Root THEN l ELSE <<>>]
    /\ defined = [p \in Procs |-> FALSE]
    /\ pset = DefinedParameters
    /\ \E v \in [ResolveParams -> Vals \cup {None}] :
          value = [q \in Params |-> IF q \in ResolveParams THEN v[q] ELSE None]
    /\ \E l \in [ResolveParams -> BOOLEAN] :
          locked = [q \in Params |-> IF q \in ResolveParams THEN l[q] ELSE FALSE]
    /\ status = [p \in Procs |-> PENDING]
    /\ error = [p \in Procs |-> <<>>]
    /\ pc = [p \in Procs |-> "idle"]
    /\ groups = [p \in Procs |-> <<>>]
    /\ gidx = [p \in Procs |-> 0]
    /\ result = [p \in Procs |-> "none"]
    /\ exc = [p \in Procs |-> <<>>]
    /\ log = <<>>
    /\ runs = 0
    /\ calls = [p \in Procs |-> 0]
    /\ call = NoCall
    /\ BusFresh

\* for source, target in param_connections: ... ; error is the message of
\* the exception that ended the loop
ResolvePass ==
    /\ pc[Root] = "idle"
    /\ LET r == resolve(connections[Root], 1, value) IN
       /\ value' = r.val
       /\ error' = [error EXCEPT ![Root] = r.err]
    /\ pc' = [pc EXCEPT ![Root] = "resolved"]
    /\ UNCHANGED <<bus, call, cfg, children, connections, defined, pset, locked, status,
                   groups, gidx, result, exc, log, runs, calls>>

SpecResolve == InitResolve /\ [][ResolvePass]_vars

\* ------------------------------------------------ parameters on their own
\* The caller works on the standalone Parameter objects and on one
\* ParameterSet, as the parameter tests do: it writes values of every kind,
\* locks, unlocks and validates.
TestVals == {None, StrV(1), ListV(1)} \cup Vals

\* the Parameter objects the caller works on: a required and an optional
\* int, an optional str and a required List[int] parameter
TestParams ==
    {FirstStandalone, FirstStandalone + 1, FirstStandalone + 3,
     FirstStandalone + 4}

\* params.add(param1); params.add(param2); ...: the required int, the
\* optional str and the required list parameter
TestSet == <<FirstStandalone, FirstStandalone + 3, FirstStandalone + 4>>

\* an exception as the caller sees it: its class, then the words of str(e)
Raised(cls, msg) == <<cls>> \o msg

\* the steps of the caller leave the processes alone
ProcessesUnchanged ==
    UNCHANGED <<bus, cfg, children, connections, defined, pset, status, error,
                pc, groups, gidx, result, log, runs, calls>>

\* param.value = v
SetCall(q, v) ==
    /\ call' = Call("set", q, v)
    /\ LET e == SetterError(q, v) IN
       /\ value' = IF e = "ok" THEN [value EXCEPT ![q] = v] ELSE value
       /\ exc' = [exc EXCEPT ![Root] =
                     IF e = "ok" THEN <<>> ELSE Raised(e, SetterMessage(e, q))]
    /\ UNCHANGED locked
    /\ ProcessesUnchanged

\* param.lock()
LockCall(q) ==
    /\ call' = Call("lock", q, None)
    /\ locked' = [locked EXCEPT ![q] = TRUE]
    /\ exc' = [exc EXCEPT ![Root] = <<>>]
    /\ UNCHANGED value
    /\ ProcessesUnchanged

\* param.unlock()
UnlockCall(q) ==
    /\ call' = Call("unlock", q, None)
    /\ locked' = [locked EXCEPT ![q] = FALSE]
    /\ exc' = [exc EXCEPT ![Root] = <<>>]
    /\ UNCHANGED value
    /\ ProcessesUnchanged

\* param.validate()
ValidateCall(q) ==
    /\ call' = Call("validate", q, None)
    /\ exc' = [exc EXCEPT ![Root] =
                  IF ValidateError(q, value) = <<>> THEN <<>>
                  ELSE Raised("ValueError", ValidateError(q, value))]
    /\ UNCHANGED <<value, locked>>
    /\ ProcessesUnchanged

\* params.lock_all()
LockAllCall ==
    /\ call' = Call("lock_all", 0, None)
    /\ locked' = lock_all(Range(TestSet), locked)
    /\ exc' = [exc EXCEPT ![Root] = <<>>]
    /\ UNCHANGED value
    /\ ProcessesUnchanged

\* params.unlock_all()
UnlockAllCall ==
    /\ call' = Call("unlock_all", 0, None)
    /\ locked' = unlock_all(Range(TestSet), locked)
    /\ exc' = [exc EXCEPT ![Root] = <<>>]
    /\ UNCHANGED value
    /\ ProcessesUnchanged

\* params.validate_all()
ValidateAllCall ==
    /\ call' = Call("validate_all", 0, None)
    /\ exc' = [exc EXCEPT ![Root] =
                  IF validate_all(TestSet, value) = <<>> THEN <<>>
                  ELSE Raised("ValueError", validate_all(TestSet, value))]
    /\ UNCHANGED <<value, locked>>
    /\ ProcessesUnchanged

InitParam ==
    /\ cfg = [modes |-> <<>>, nested |-> FALSE, alias |-> FALSE, runs |-> 1,
              flow |-> "generic"]
    /\ Constructed

NextParam ==
    \/ \E q \in TestParams : \E v \in TestVals : SetCall(q, v)
    \/ \E q \in TestParams : LockCall(q)
    \/ \E q \in TestParams : UnlockCall(q)
    \/ \E q \in TestParams : ValidateCall(q)
    \/ LockAllCall
    \/ UnlockAllCall
    \/ ValidateAllCall

SpecParam == InitParam /\ [][NextParam]_vars

\* ----------------------------------------------- composition on its own
\* The caller calls orchestrate() on the root directly, as
\* test_connect_param_helper does, and execute() reaches the first
\* statement of execute_impl; no child is run here, so the children a
\* further orchestrate() call constructs are written like the first ones.
InitCompose ==
    /\ cfg \in {c \in Configs : ~c.nested}
    /\ Constructed

\* workflow.orchestrate()
OrchestrateCall ==
    /\ calls[Root] < MaxCompose
    /\ Orchestrate(Root)
    /\ calls' = [calls EXCEPT ![Root] = @ + 1]
    /\ UNCHANGED <<bus, call, cfg, defined, value, locked, status, error, pc, groups,
                   gidx, result, exc, log, runs>>

\* lines 402-405, reached through execute(): orchestrate() unless the flag
\* is set, then the flag
ComposeInExecute ==
    /\ runs < cfg.runs
    /\ runs' = runs + 1
    /\ IF orchestration_defined(Root)
       THEN UNCHANGED <<children, connections, pset>>
       ELSE Orchestrate(Root)
    /\ defined' = [defined EXCEPT ![Root] = TRUE]
    /\ UNCHANGED <<bus, call, cfg, value, locked, status, error, pc, groups, gidx,
                   result, exc, log, calls>>

SpecCompose == InitCompose /\ [][OrchestrateCall \/ ComposeInExecute]_vars

\* ------------------------------------------------ the event bus on its own
\* The caller subscribes and unsubscribes callbacks and emits events on an
\* EventBus, as the event bus tests do.
\* the subscriptions made
MaxSubs == 3
\* the events emitted on the bus under test
MaxEmits == 2
\* the events emitted before the history is queried
MaxHistory == 3
\* the events the metrics collector is notified of
MaxNotified == 4
\* the largest limit handed to get_events
MaxLimit == 3

TestHandlers == {"failing_handler", "working_handler", "handler"}
TestKeys == {"process.started", "*"}

\* Python truth of an argument: None and 0 are false (the process ids and
\* event types handed over are non-empty strings)
truthy(v) == v # None /\ v # IntV(0)

\* the argument that names the process id p, or the event type t
IdArg(p) == <<"str", p>>

RECURSIVE reversed(_)
reversed(s) == IF s = <<>> THEN <<>> ELSE Append(reversed(Tail(s)), Head(s))

\* EventBus.get_events over the history lg
get_events(lg, process_id, event_type, limit) ==
    LET by_id(e) == IdArg(e.process_id) = process_id
        by_type(e) == IdArg(e.type) = event_type
        a == IF truthy(process_id) THEN SelectSeq(lg, by_id) ELSE lg
        b == IF truthy(event_type) THEN SelectSeq(a, by_type) ELSE a
        r == reversed(b)
    IN IF truthy(limit)
       THEN SubSeq(r, 1, IF limit[2] < Len(r) THEN limit[2] ELSE Len(r))
       ELSE r

\* the steps on the event bus leave the processes and parameters alone
EngineUnchanged ==
    UNCHANGED <<cfg, children, connections, defined, pset, value, locked,
                status, error, pc, groups, gidx, result, runs, calls>>

\* event_bus.subscribe(k, h)
Subscribe(k, h) ==
    /\ Len(subscribers["process.started"]) + Len(subscribers["*"]) < MaxSubs
    /\ subscribers' = [subscribers EXCEPT ![k] = Append(@, h)]
    /\ UNCHANGED <<delivered, metrics, aggregated, ret, pending, log, exc, call>>
    /\ EngineUnchanged

\* list.remove: the list without the first occurrence of h
remove(s, h) ==
    LET at == {i \in 1..Len(s) : s[i] = h}
        i == CHOOSE i \in at : \A j \in at : i <= j
    IN SubSeq(s, 1, i - 1) \o SubSeq(s, i + 1, Len(s))

\* event_bus.unsubscribe(k, h): nothing when h is not subscribed to k
Unsubscribe(k, h) ==
    /\ subscribers' = [subscribers EXCEPT ![k] =
                          IF h \in Range(@) THEN remove(@, h) ELSE @]
    /\ UNCHANGED <<delivered, metrics, aggregated, ret, pending, log, exc, call>>
    /\ EngineUnchanged

\* await event_bus.emit(ev), lines 81-112: the event is appended and the
\* history trimmed, the callbacks of its type and of "*" are collected and
\* called; emit returns whatever the callbacks raised
Emit(ev) ==
    /\ log' = emit(log, ev)
    /\ LET hs == collect(subscribers, ev.type)
           st == deliver(hs, gathered(hs), 1, ev,
                         [delivered |-> delivered, metrics |-> metrics,
                          aggregated |-> aggregated])
       IN /\ delivered' = st.delivered
          /\ metrics' = st.metrics
          /\ aggregated' = st.aggregated
    /\ call' = Call("emit", 0, None)
    /\ exc' = [exc EXCEPT ![Root] = <<>>]
    /\ UNCHANGED <<subscribers, ret, pending>>
    /\ EngineUnchanged

\* The callbacks of the event that was emitted first among the pending
\* ones run (lines 109-122), and its emit call returns.
CallHandlers ==
    /\ pending # <<>>
    /\ LET ev == Head(pending)
           hs == collect(subscribers, ev.type)
           st == deliver(hs, gathered(hs), 1, ev,
                         [delivered |-> delivered, metrics |-> metrics,
                          aggregated |-> aggregated])
       IN /\ delivered' = st.delivered
          /\ metrics' = st.metrics
          /\ aggregated' = st.aggregated
    /\ pending' = Tail(pending)
    /\ UNCHANGED <<subscribers, ret, log, exc, call>>
    /\ EngineUnchanged

\* event_bus.get_events(process_id, event_type, limit)
GetEvents(process_id, event_type, limit) ==
    /\ ret' = get_events(log, process_id, event_type, limit)
    /\ call' = Call("get_events", <<process_id, event_type>>, limit)
    /\ UNCHANGED <<subscribers, delivered, metrics, aggregated, pending, log, exc>>
    /\ EngineUnchanged

\* event_bus.clear_history()
ClearHistory ==
    /\ log # <<>>
    /\ log' = <<>>
    /\ call' = Call("clear_history", 0, None)
    /\ UNCHANGED <<subscribers, delivered, metrics, aggregated, ret, pending, exc>>
    /\ EngineUnchanged

\* the events the tests emit: lifecycle events of the processes ps
TestEvents(ps, types) ==
    {ProcessEvent(t, p, IF t = "process.started" THEN RUNNING
                        ELSE IF t = "process.completed" THEN COMPLETED
                        ELSE FAILED,
                  IF t = "process.failed" THEN <<"Test error">> ELSE <<>>,
                  IF t = "process.failed" THEN {"error"} ELSE {}) :
        p \in ps, t \in types}

InitBus ==
    /\ cfg = [modes |-> <<>>, nested |-> FALSE, alias |-> FALSE, runs |-> 1,
              flow |-> "generic"]
    /\ Constructed

NextBus ==
    \/ \E k \in TestKeys : \E h \in TestHandlers : Subscribe(k, h)
    \/ \E k \in TestKeys : \E h \in TestHandlers : Unsubscribe(k, h)
    \/ \E ev \in TestEvents({Root}, {"process.started", "process.completed"}) :
          Len(log) < MaxEmits /\ Emit(ev)

SpecBus == InitBus /\ [][NextBus]_vars

\* ------------------------------------------- processes on a small history
\* The scenarios of SpecOnce on a bus constructed with
\* EventBus(max_history=n), whose history the caller may clear at any time.
MaxKept == 3

InitTrim ==
    /\ \E c \in {c \in Configs : c.runs = 1} : \E n \in 1..MaxKept :
          cfg = [modes |-> c.modes, nested |-> c.nested, alias |-> c.alias,
                 runs |-> c.runs, flow |-> c.flow, max_history |-> n]
    /\ Constructed

NextTrim ==
    \/ Next
    \/ ClearHistory

SpecTrim == InitTrim /\ [][NextTrim]_vars

\* ------------------------------------------- the event history on its own
\* The caller emits events with no subscriber and queries the history.
Limits == {None} \cup {IntV(n) : n \in 0..MaxLimit}

NextHistory ==
    \/ \E ev \in TestEvents({Root, Inner}, {"process.started", "process.completed"}) :
          Len(log) < MaxHistory /\ Emit(ev)
    \/ \E p \in {None, IdArg(Root), IdArg(Inner)} :
       \E t \in {None, IdArg("process.started"), IdArg("process.completed")} :
       \E n \in Limits : GetEvents(p, t, n)
    \/ ClearHistory

SpecHistory == InitBus /\ [][NextHistory]_vars

\* -------------------------------------- the metrics collector on its own
\* A MetricsCollector subscribed to the bus (_subscribe_to_events), and
\* lifecycle events of three processes emitted in any order.
InitMetrics ==
    /\ cfg = [modes |-> <<>>, nested |-> FALSE, alias |-> FALSE, runs |-> 1,
              flow |-> "generic"]
    /\ children = [p \in Procs |-> <<>>]
    /\ connections = [p \in Procs |-> <<>>]
    /\ defined = [p \in Procs |-> FALSE]
    /\ pset = DefinedParameters
    /\ value = [q \in Params |-> None]
    /\ locked = [q \in Params |-> FALSE]
    /\ status = [p \in Procs |-> PENDING]
    /\ error = [p \in Procs |-> <<>>]
    /\ pc = [p \in Procs |-> "idle"]
    /\ groups = [p \in Procs |-> <<>>]
    /\ gidx = [p \in Procs |-> 0]
    /\ result = [p \in Procs |-> "none"]
    /\ exc = [p \in Procs |-> <<>>]
    /\ log = <<>>
    /\ runs = 0
    /\ calls = [p \in Procs |-> 0]
    /\ call = NoCall
    /\ subscribers =
          [k \in Keys |->
              IF k = "process.started" THEN <<"_on_process_started">>
              ELSE IF k = "process.completed" THEN <<"_on_process_completed">>
              ELSE IF k = "process.failed" THEN <<"_on_process_failed">>
              ELSE <<>>]
    /\ delivered = [h \in Handlers |-> <<>>]
    /\ metrics = <<>>
    /\ aggregated = <<>>
    /\ ret = <<>>
    /\ pending = <<>>

NextMetrics ==
    \E ev \in TestEvents({Root, 1, 2}, {"process.started", "process.completed",
                                        "process.failed"}) :
        Len(log) < MaxNotified /\ Emit(ev)

SpecMetrics == InitMetrics /\ [][NextMetrics]_vars

\* ------------------------------------- processes under the collector
\* The scenarios of Spec with the global metrics_collector constructed:
\* its three callbacks are subscribed to the global event bus.
InitCollected ==
    /\ cfg \in Configs
    /\ children = [p \in Procs |-> <<>>]
    /\ connections = [p \in Procs |-> <<>>]
    /\ defined = [p \in Procs |-> FALSE]
    /\ pset = DefinedParameters
    /\ value = [q \in Params |-> None]
    /\ locked = [q \in Params |-> FALSE]
    /\ status = [p \in Procs |-> PENDING]
    /\ error = [p \in Procs |-> <<>>]
    /\ pc = [p \in Procs |-> "idle"]
    /\ groups = [p \in Procs |-> <<>>]
    /\ gidx = [p \in Procs |-> 0]
    /\ result = [p \in Procs |-> "none"]
    /\ exc = [p \in Procs |-> <<>>]
    /\ log = <<>>
    /\ runs = 0
    /\ calls = [p \in Procs |-> 0]
    /\ call = NoCall
    /\ subscribers =
          [k \in Keys |->
              IF k = "process.started" THEN <<"_on_process_started">>
              ELSE IF k = "process.completed" THEN <<"_on_process_completed">>
              ELSE IF k = "process.failed" THEN <<"_on_process_failed">>
              ELSE <<>>]
    /\ delivered = [h \in Handlers |-> <<>>]
    /\ metrics = <<>>
    /\ aggregated = <<>>
    /\ ret = <<>>
    /\ pending = <<>>

NextCollected ==
    \/ Next
    \/ CallHandlers

SpecCollected == InitCollected /\ [][NextCollected]_vars

\* ----------------------------------------------------------------- claims
InImpl(p) == pc[p] \in {"impl", "gs", "wait", "gc"}
ChildrenOf(p) == {children[p][i][1] : i \in 1..Len(children[p])}
CurGroup(p) == groups[p][gidx[p] + 1]
Orchs == {p \in Procs : IsOrch(p)}
GroupOf(p, c) == CHOOSE k \in 1..Len(groups[p]) : c \in Range(groups[p][k])

\* whether the words of a occur in b as one contiguous run
Contains(b, a) ==
    \E i \in 0..(Len(b) - Len(a)) : SubSeq(b, i + 1, i + Len(a)) = a

\* the events emitted since execute() was last called on p
EventsSince(p) ==
    LET starts == {i \in 1..Len(log) : /\ log[i].type = "process.started"
                                        /\ log[i].process_id = p}
    IN IF starts = {} THEN <<>>
       ELSE SubSeq(log, CHOOSE i \in starts : \A j \in starts : j <= i, Len(log))

\* whether group k (counted from 1) of p was announced in the execution of p
\* that was started last
GroupReached(p, k) ==
    \E i \in 1..Len(EventsSince(p)) :
        LET e == EventsSince(p)[i] IN
        /\ e.type = "process.group_started"
        /\ e.process_id = p
        /\ e.group_index = k - 1

\* C1: the status of every process changes only along PENDING->RUNNING,
\* RUNNING->COMPLETED and RUNNING->FAILED; no step leaves COMPLETED or
\* FAILED and CANCELLED is never entered.
C1_StatusLifecycle ==
    [][\A p \in Procs :
          \/ status'[p] = status[p]
          \/ <<status[p], status'[p]>> \in
                {<<PENDING, RUNNING>>, <<RUNNING, COMPLETED>>, <<RUNNING, FAILED>>}]_vars

\* C2: execute() never raises; it returns true when the status ends
\* COMPLETED and false when it ends FAILED.
C2_ExecuteNeverRaises ==
    \A p \in Procs :
        /\ result[p] # "raised"
        /\ (pc[p] = "idle" /\ result[p] = "true") => status[p] = COMPLETED
        /\ (pc[p] = "idle" /\ result[p] = "false") => status[p] = FAILED

\* C3: in the step in which execute() ends on a process, whether it returns
\* true or false or lets an exception escape, every input parameter of that
\* process is unlocked.
C3_InputsUnlockedOnReturn ==
    [][\A p \in Procs :
          (pc[p] \in {"completing", "failing"} /\ pc'[p] = "idle")
              => \A q \in Inputs(pset, p) : ~locked'[q]]_vars

\* the root has returned false because a child failed, after its input was
\* locked, and its input is unlocked
C3_Witness ==
    /\ pc[Root] = "idle" /\ result[Root] = "false"
    /\ \E c \in ChildrenOf(Root) : calls[c] = 1 /\ status[c] = FAILED
    /\ \A q \in Inputs(pset, Root) : ~locked[q]

\* C4: while execute_impl of a process runs, every input parameter of the
\* process is locked and keeps its value.
C4_InputsLockedDuringImpl ==
    [][\A p \in Procs : \A q \in Inputs(pset, p) :
          InImpl(p) => /\ locked[q]
                       /\ pc'[p] = pc[p] => value'[q] = value[q]]_vars

\* the groups gs are the run-length grouping of the children ch
RECURSIVE Flatten(_)
Flatten(gs) == IF gs = <<>> THEN <<>> ELSE Head(gs) \o Flatten(Tail(gs))

RECURSIVE Offset(_, _)
Offset(gs, k) == IF k = 1 THEN 0 ELSE Offset(gs, k - 1) + Len(gs[k - 1])

IsRunLengthGrouping(ch, gs) ==
    /\ Flatten(gs) = [i \in 1..Len(ch) |-> ch[i][1]]
    /\ \A k \in 1..Len(gs) : Len(gs[k]) >= 1
    /\ \A k \in 1..Len(gs) :
          LET off == Offset(gs, k)
              n == Len(gs[k])
          IN \/ n = 1 /\ ch[off + 1][2] = SEQUENTIAL
             \/ /\ \A i \in (off + 1)..(off + n) : ch[i][2] = PARALLEL
                /\ off = 0 \/ ch[off][2] = SEQUENTIAL
                /\ off + n = Len(ch) \/ ch[off + n + 1][2] = SEQUENTIAL

Example5 ==
    << <<1, SEQUENTIAL>>, <<2, SEQUENTIAL>>, <<3, PARALLEL>>, <<4, PARALLEL>>,
       <<5, SEQUENTIAL>> >>

\* C5: _group_processes returns the run-length grouping of children (every
\* SEQUENTIAL child a singleton, every maximal run of PARALLEL children one
\* group, the groups non-empty and their concatenation the children in
\* order), gives [[p1],[p2],[p3,p4],[p5]] on the example, and leaves
\* children unchanged.
C5_RunLengthGrouping ==
    [][pc'[Root] = "grouped" =>
          /\ children' = children
          /\ IsRunLengthGrouping(children[Root], groups'[Root])
          /\ children[Root] = Example5 =>
                groups'[Root] = << <<1>>, <<2>>, <<3, 4>>, <<5>> >>]_vars

\* the example has been grouped
C5_Witness ==
    /\ pc[Root] = "grouped"
    /\ children[Root] = Example5
    /\ groups[Root] = << <<1>>, <<2>>, <<3, 4>>, <<5>> >>

\* C6: no member of a group is RUNNING unless every member of every earlier
\* group is COMPLETED; no child is executed twice in one execution of its
\* orchestration, and after the last group succeeded every child has been
\* executed exactly once.
C6_GroupsInOrder ==
    \A p \in Orchs :
        /\ \A k \in 1..Len(groups[p]) : \A j \in 1..(k - 1) :
              \A c \in Range(groups[p][k]) : \A d \in Range(groups[p][j]) :
                  status[c] = RUNNING => status[d] = COMPLETED
        /\ \A c \in ChildrenOf(p) : calls[c] <= 1
        /\ (pc[p] = "gc" /\ gidx[p] + 1 = Len(groups[p]))
              => \A c \in ChildrenOf(p) : calls[c] = 1

\* both groups of a two-group root have succeeded, each child executed once
C6_Witness ==
    /\ Len(groups[Root]) = 2
    /\ pc[Root] = "gc" /\ gidx[Root] = 1
    /\ \A c \in ChildrenOf(Root) : calls[c] = 1 /\ status[c] = COMPLETED

\* C7: when a child starts, each of its inputs that a connection feeds from
\* the output of a child of an earlier group holds the value that child
\* wrote.
C7_ResolvedBeforeStart ==
    \A p \in Orchs : \A i \in 1..Len(connections[p]) :
        \A c \in ChildrenOf(p) : \A d \in ChildrenOf(p) :
            (/\ pc[c] = "started"
             /\ connections[p][i][2] \in Inputs(pset, c)
             /\ connections[p][i][1] \in Outputs(pset, d)
             /\ GroupOf(p, d) < GroupOf(p, c))
            => /\ value[connections[p][i][2]] = value[connections[p][i][1]]
               /\ value[connections[p][i][2]] # None

\* in the second execution the second child starts with the value the first
\* child wrote in that execution, which is not the value of the first one
C7_Witness ==
    /\ cfg.modes = <<SEQUENTIAL, SEQUENTIAL>> /\ ~cfg.alias
    /\ runs = 2 /\ pc[2] = "started"
    /\ value[In(2)] = value[Out(1)] /\ value[In(2)] # None
    /\ value[Out(2)] # None /\ value[Out(2)] # Compute(value[In(2)])

\* a member of group k (counted from 1) of p that returned failure in the
\* execution of p that has ended
ReturnedFailure(p, k, c) ==
    /\ pc[p] = "idle" /\ result[p] # "none"
    /\ GroupReached(p, k)
    /\ c \in Range(groups[p][k])
    /\ calls[c] = 1 /\ pc[c] = "idle" /\ result[c] = "false"

NoLaterGroupStarted(p, k) ==
    \A i \in 1..Len(EventsSince(p)) :
        LET e == EventsSince(p)[i] IN
        ~(/\ e.type = "process.group_started"
          /\ e.process_id = p
          /\ e.group_index >= k)

\* C8: when a child of group k returned failure and the
\* orchestration's execute() has ended, every process of every later group
\* has status PENDING and no group_started was emitted for a later group.
C8_LaterGroupsPending ==
    \A p \in Orchs : \A k \in 1..Len(groups[p]) : \A c \in Procs :
        ReturnedFailure(p, k, c) =>
            /\ \A j \in (k + 1)..Len(groups[p]) : \A d \in Range(groups[p][j]) :
                  status[d] = PENDING
            /\ NoLaterGroupStarted(p, k)

\* the first member in declaration order of the current group of p that
\* failed in the execution of p that has ended
FailedMembers(p) ==
    {i \in 1..Len(CurGroup(p)) :
        LET c == CurGroup(p)[i] IN
        calls[c] = 1 /\ pc[c] = "idle" /\ status[c] = FAILED}

\* C9: when a child failed and the orchestration's execute() has ended, the
\* orchestration returned false, is FAILED, and its error contains the
\* child's name and the child's error message.
C9_ChildFailurePropagates ==
    \A p \in Orchs :
        (/\ pc[p] = "idle" /\ result[p] # "none"
         /\ groups[p] # <<>>
         /\ GroupReached(p, gidx[p] + 1)
         /\ FailedMembers(p) # {})
        => LET c == CurGroup(p)[CHOOSE i \in FailedMembers(p) :
                                   \A j \in FailedMembers(p) : i <= j]
           IN /\ result[p] = "false"
              /\ status[p] = FAILED
              /\ Contains(error[p], <<Name(c)>>)
              /\ Contains(error[p], error[c])

\* C10: at the moment an orchestration reports the failure of a member of a
\* parallel group, every member of that group has been started and has
\* ended COMPLETED or FAILED.
C10_ParallelMembersFinish ==
    \A p \in Orchs :
        (/\ pc[p] = "failing"
         /\ groups[p] # <<>>
         /\ Len(CurGroup(p)) > 1
         /\ Len(error[p]) >= 2
         /\ error[p][1] = "Process"
         /\ \E c \in Range(CurGroup(p)) : error[p][2] = Name(c))
        => \A m \in Range(CurGroup(p)) :
              /\ status[m] \in {COMPLETED, FAILED}
              /\ pc[m] = "idle"
              /\ calls[m] = 1

\* the root reports the failure of the first member of a parallel group
\* whose second member completed
C10_Witness ==
    /\ pc[Root] = "failing"
    /\ cfg.modes = <<PARALLEL, PARALLEL>>
    /\ error[Root] = ChildFailure(1, error[1])
    /\ status[1] = FAILED /\ status[2] = COMPLETED

\* the execution of the workflow the caller started has ended
WorkflowEnded == runs = 1 /\ pc[Root] = "idle"
ArgA == value[In(Root)][2]
ArgB == value[In2(Root)][2]

\* C11: SimpleOrchestration over inputs a, b in 0..MaxArg never stops
\* before the end of execute(), and at the end it returned true, is
\* COMPLETED and its output final_result is (a+b)*2, 30 for a=10, b=5; the
\* children hold a+b and (a+b)*2.
C11_SequentialWorkflow ==
    cfg.flow = "simple" =>
        /\ (runs = 1 /\ pc[Root] # "idle") => ENABLED NextFlow
        /\ WorkflowEnded =>
              /\ result[Root] = "true"
              /\ status[Root] = COMPLETED
              /\ value[Out(1)] = IntV(ArgA + ArgB)
              /\ value[Out(Root)] = IntV((ArgA + ArgB) * 2)
              /\ (ArgA = 10 /\ ArgB = 5) => value[Out(Root)] = IntV(30)

\* SimpleOrchestration has ended for a=10, b=5 with final_result 30
C11_Witness ==
    /\ cfg.flow = "simple" /\ WorkflowEnded
    /\ ArgA = 10 /\ ArgB = 5
    /\ status[Root] = COMPLETED /\ value[Out(Root)] = IntV(30)
    /\ \A c \in {1, 2} : status[c] = COMPLETED /\ calls[c] = 1

\* C12: ParallelOrchestration over inputs a, b in 0..MaxArg never stops
\* before the end of execute() under any interleaving of its two children,
\* and at the end it returned true, is COMPLETED and its outputs are
\* sum = a+b and product = a*b, 10 and 24 for a=6, b=4.
C12_ParallelWorkflow ==
    cfg.flow = "parallel" =>
        /\ (runs = 1 /\ pc[Root] # "idle") => ENABLED NextFlow
        /\ WorkflowEnded =>
              /\ result[Root] = "true"
              /\ status[Root] = COMPLETED
              /\ value[Out(Root)] = IntV(ArgA + ArgB)
              /\ value[Out2(Root)] = IntV(ArgA * ArgB)
              /\ (ArgA = 6 /\ ArgB = 4) =>
                    value[Out(Root)] = IntV(10) /\ value[Out2(Root)] = IntV(24)

\* ParallelOrchestration has ended for a=6, b=4 with sum 10 and product
\* 24, in an interleaving in which Multiply completed before Add
C12_Witness ==
    /\ cfg.flow = "parallel" /\ WorkflowEnded
    /\ ArgA = 6 /\ ArgB = 4
    /\ status[Root] = COMPLETED
    /\ value[Out(Root)] = IntV(10) /\ value[Out2(Root)] = IntV(24)
    /\ \E i \in 1..Len(log) : \E j \in (i + 1)..Len(log) :
          /\ log[i].type = "process.completed" /\ log[i].process_id = 2
          /\ log[j].type = "process.completed" /\ log[j].process_id = 1

\* the connections of p that feed its output q from the output of a child
FedFromChild(p, q) ==
    {i \in 1..Len(connections[p]) :
        /\ connections[p][i][2] = q
        /\ \E c \in ChildrenOf(p) : connections[p][i][1] \in Outputs(pset, c)}

TargetedOnce(p, q) ==
    Cardinality({i \in 1..Len(connections[p]) : connections[p][i][2] = q}) = 1

\* C13: in the step after the last group's group_completed event in which
\* an orchestration becomes COMPLETED, every output of the orchestration
\* that is the target of exactly one connection, from a child's output,
\* holds that child's output value, which is not null.
C13_FinalPass ==
    [][\A p \in Orchs :
          (/\ pc[p] = "gc" /\ gidx[p] + 1 = Len(groups[p])
           /\ status'[p] = COMPLETED)
          => \A q \in Outputs(pset, p) : \A i \in FedFromChild(p, q) :
                TargetedOnce(p, q) =>
                    /\ value'[q] = value'[connections[p][i][1]]
                    /\ value'[q] # None]_vars

\* the root completes its second execution, its output fed by a connection
\* from the child of the last group and holding that child's value
C13_Witness ==
    /\ runs = 2 /\ ~cfg.alias /\ Len(cfg.modes) = 2
    /\ pc[Root] = "completing" /\ status[Root] = COMPLETED
    /\ \E i \in FedFromChild(Root, Out(Root)) :
          /\ TargetedOnce(Root, Out(Root))
          /\ connections[Root][i][1] = Out(2)
          /\ GroupOf(Root, 2) = Len(groups[Root])
    /\ value[Out(Root)] = value[Out(2)] /\ value[Out(2)] # None

LockedMessages == {SetterMessage("RuntimeError", q) : q \in Params}

\* C14: a resolution pass never ends with the locked error, and a pass
\* over a single connection whose source holds a value leaves that value in
\* the target, whether or not the target is locked.
C14_ResolutionBypassesLock ==
    [][pc'[Root] = "resolved" =>
          /\ error'[Root] \notin LockedMessages
          /\ (Len(connections[Root]) = 1 /\ value[connections[Root][1][1]] # None)
                => value'[connections[Root][1][2]] = value[connections[Root][1][1]]]_vars

FirstExecutionEnded == runs >= 2 \/ (runs = 1 /\ pc[Root] = "idle")

Composed == calls[Root] > 0 \/ defined[Root]

\* C16: once the root is composed, neither a direct orchestrate() call nor
\* the composition step of execute() changes the length of its children or
\* of its connection list.
C16_RecompositionNoOp ==
    [][Composed =>
          /\ Len(children'[Root]) = Len(children[Root])
          /\ Len(connections'[Root]) = Len(connections[Root])]_vars

\* whether the value v satisfies the declared type t: the type itself, or
\* for a container type the kind of the container
SatisfiesType(v, t) == IF t = "List[int]" THEN v[1] = "list" ELSE v[1] = t

\* the class of the exception the caller's last call raised, "" if none
RaisedClass == IF exc[Root] = <<>> THEN "" ELSE exc[Root][1]

C18_LockedWritesFail ==
    [][LET q == call'.param
           v == call'.arg
       IN /\ (call'.op = "set" /\ locked[q])
                => RaisedClass' = "RuntimeError" /\ value' = value
          /\ (call'.op = "set" /\ ~locked[q] /\ v # None
                /\ SatisfiesType(v, param_type(q)))
                => RaisedClass' = "" /\ value'[q] = v
          /\ call'.op = "lock" => locked'[q]
          /\ call'.op = "unlock" => ~locked'[q]
          /\ call'.op = "lock_all" =>
                \A r \in Params : locked'[r] = (r \in Range(TestSet) \/ locked[r])
          /\ call'.op = "unlock_all" =>
                \A r \in Params : locked'[r] = (r \notin Range(TestSet) /\ locked[r])]_vars

\* a well-typed write to a member of the set that lock_all locked raised
\* RuntimeError and left the other value there
C18_Witness ==
    /\ call = Call("set", FirstStandalone, IntV(2))
    /\ \A r \in Range(TestSet) : locked[r]
    /\ value[FirstStandalone] = IntV(1)
    /\ RaisedClass = "RuntimeError"

\* C19: validate() raises ValueError exactly when the parameter is required
\* and holds no value, validate_all exactly when that is so for some
\* member, and neither changes a value or a lock.
C19_ValidateRequired ==
    [][/\ call'.op = "validate" =>
             /\ (RaisedClass' = "ValueError")
                   <=> (required(call'.param) /\ value[call'.param] = None)
             /\ RaisedClass' \in {"", "ValueError"}
             /\ value' = value /\ locked' = locked
       /\ call'.op = "validate_all" =>
             /\ (RaisedClass' = "ValueError")
                   <=> (\E r \in Range(TestSet) : required(r) /\ value[r] = None)
             /\ RaisedClass' \in {"", "ValueError"}
             /\ value' = value /\ locked' = locked]_vars

\* validate_all raised ValueError for the set whose required list member
\* holds no value while its required int member does
C19_Witness ==
    /\ call.op = "validate_all"
    /\ value[FirstStandalone] # None
    /\ value[FirstStandalone + 3] = None /\ ~required(FirstStandalone + 3)
    /\ value[FirstStandalone + 4] = None /\ required(FirstStandalone + 4)
    /\ RaisedClass = "ValueError"

\* the input validation of p, about to run, will fail
InputMissing(p) ==
    pc[p] = "started" /\ validate_all(pset[p].in, value) # <<>>

MissingMessages == {ValidateError(q, [r \in Params |-> None]) : q \in Params}

\* the execution of p is ending after its input validation failed
FailingOnInput(p) ==
    /\ pc[p] = "failing"
    /\ error[p] \in MissingMessages
    /\ \E q \in Inputs(pset, p) : value[q] = None

LastEvent(lg) == lg[Len(lg)]

\* C20: execute() sets RUNNING and emits the started event before it
\* validates; when a required input holds no value at the validation, the
\* next step of the process makes it FAILED with the missing-value message
\* in error, without running execute_impl and without locking an input, and
\* the step after that returns false with the inputs still unlocked.
C20_MissingInputFails ==
    [][\A p \in Procs :
          /\ (pc[p] # "started" /\ pc'[p] = "started") =>
                /\ status'[p] = RUNNING
                /\ LastEvent(log').type = "process.started"
                /\ LastEvent(log').process_id = p
          /\ (InputMissing(p) /\ pc'[p] # "started") =>
                /\ pc'[p] = "failing"
                /\ status'[p] = FAILED
                /\ error'[p] = validate_all(pset[p].in, value)
                /\ locked' = locked
          /\ (FailingOnInput(p) /\ pc'[p] # "failing") =>
                /\ pc'[p] = "idle"
                /\ result'[p] = "false"
                /\ status'[p] = FAILED
                /\ \A q \in Inputs(pset, p) : ~locked'[q]]_vars

\* every required output parameter of p holds a value, in the values val
OutputsSet(p, ps, val) == \A q \in Outputs(ps, p) : required(q) => val[q] # None

\* the execution of p is ending after its output validation failed
FailingOnOutput(p) ==
    /\ pc[p] = "failing"
    /\ \E q \in Outputs(pset, p) :
          /\ value[q] = None
          /\ error[p] = ValidateError(q, value)
          /\ error[p] # <<>>

\* C21: a step that sets COMPLETED, and a step in which execute() returns
\* true, finds every required output of the process set; a process that
\* leaves execute_impl goes on to the completed event only with its required
\* outputs set and is FAILED otherwise, and the execute() of a process that
\* failed on an unset output returns false.
C21_OutputsRequired ==
    [][\A p \in Procs :
          /\ (status[p] # COMPLETED /\ status'[p] = COMPLETED)
                => OutputsSet(p, pset', value')
          /\ (pc[p] # "idle" /\ pc'[p] = "idle" /\ result'[p] = "true")
                => OutputsSet(p, pset', value')
          /\ (InImpl(p) /\ ~InImpl(p)')
                => /\ pc'[p] \in {"completing", "failing"}
                   /\ pc'[p] = "completing" => OutputsSet(p, pset', value')
                   /\ pc'[p] = "failing" => status'[p] = FAILED
          /\ (FailingOnOutput(p) /\ pc'[p] # "failing")
                => result'[p] = "false" /\ status'[p] = FAILED]_vars

\* the started, completed and failed events of p in the history, in order
LifecycleEvents(p) ==
    LET own(e) == /\ e.process_id = p
                  /\ e.type \in {"process.started", "process.completed",
                                 "process.failed"}
    IN SelectSeq(log, own)

\* C22: the lifecycle events of a process alternate: a started event with
\* status running for each execute() call, then one terminal event, which
\* is completed with status completed when the call returned true and
\* failed with status failed when it returned false; while a call is before
\* its terminal event the last event is its started event.
C22_OneStartOneEnd ==
    \A p \in Procs :
        LET ev == LifecycleEvents(p) IN
        /\ \A i \in 1..Len(ev) :
              IF i % 2 = 1
              THEN ev[i].type = "process.started" /\ ev[i].status = RUNNING
              ELSE \/ ev[i].type = "process.completed" /\ ev[i].status = COMPLETED
                   \/ ev[i].type = "process.failed" /\ ev[i].status = FAILED
        /\ Len(ev) % 2 = (IF pc[p] \in {"started", "impl", "gs", "wait", "gc"}
                          THEN 1 ELSE 0)
        /\ (pc[p] = "idle" /\ result[p] = "true")
              => ev[Len(ev)].type = "process.completed"
        /\ (pc[p] = "idle" /\ result[p] = "false")
              => ev[Len(ev)].type = "process.failed"

\* C23: every process.completed event that is emitted carries the key
\* execution_time_ms, and every process.failed event carries under the key
\* error the message that the process's error field holds.
C23_TerminalEventFields ==
    [][Len(log') > Len(log) =>
          LET e == LastEvent(log') IN
          /\ e.type = "process.completed" => "execution_time_ms" \in e.kwargs
          /\ e.type = "process.failed" =>
                "error" \in e.kwargs /\ e.error = error'[e.process_id]]_vars

\* the group events of p emitted since execute() was last called on p
GroupEvents(p) ==
    LET own(e) == /\ e.process_id = p
                  /\ e.type \in {"process.group_started",
                                 "process.group_completed"}
    IN SelectSeq(EventsSince(p), own)

\* the step emits the event of type t for the orchestration p
Emits(p, t) ==
    /\ Len(log') > Len(log)
    /\ LastEvent(log').type = t
    /\ LastEvent(log').process_id = p

\* C24: the group events of an execution are group_started 0,
\* group_completed 0, group_started 1, ... in this order; group_started
\* carries the size of the group and the mode parallel exactly for a size
\* above 1 and is emitted while no member of the group has started;
\* group_completed is emitted exactly when the wait for the members ends
\* with every member having returned true, and a member starts only after
\* the group_started of its group.
C24_GroupEvents ==
    [][\A p \in Orchs :
          /\ \A i \in 1..Len(GroupEvents(p)') :
                LET e == GroupEvents(p)'[i] IN
                /\ e.type = (IF i % 2 = 1 THEN "process.group_started"
                             ELSE "process.group_completed")
                /\ e.group_index = (i - 1) \div 2
                /\ "group_index" \in e.kwargs
          /\ Emits(p, "process.group_started") =>
                LET e == LastEvent(log')
                    g == groups'[p][e.group_index + 1] IN
                /\ e.group_index = gidx'[p]
                /\ e.group_size = Len(g)
                /\ e.execution_mode = "parallel" <=> Len(g) > 1
                /\ e.execution_mode \in {"parallel", "sequential"}
                /\ {"group_size", "execution_mode"} \subseteq e.kwargs
                /\ \A c \in Range(g) : calls'[c] = 0 /\ pc'[c] = "idle"
          /\ Emits(p, "process.group_completed") =>
                /\ LastEvent(log').group_index = gidx[p]
                /\ \A c \in Range(CurGroup(p)) :
                      pc[c] = "idle" /\ result[c] = "true" /\ calls[c] = 1
          /\ (pc[p] = "wait" /\ pc'[p] # "wait") =>
                (Emits(p, "process.group_completed")
                    <=> \A c \in Range(CurGroup(p)) : result[c] = "true")
          /\ \A c \in ChildrenOf(p) :
                (calls'[c] = calls[c] + 1) =>
                    /\ GroupEvents(p) # <<>>
                    /\ LET e == GroupEvents(p)[Len(GroupEvents(p))] IN
                       /\ e.type = "process.group_started"
                       /\ c \in Range(groups[p][e.group_index + 1])]_vars

\* the root has announced and completed two groups of one member each and
\* has returned true
C24_Witness ==
    /\ pc[Root] = "idle" /\ result[Root] = "true"
    /\ Len(groups[Root]) = 2
    /\ Len(GroupEvents(Root)) = 4
    /\ GroupEvents(Root)[3].group_index = 1
    /\ GroupEvents(Root)[3].execution_mode = "sequential"
    /\ GroupEvents(Root)[4].type = "process.group_completed"

\* C25: the error a handler raised while a lifecycle notification was
\* delivered never shows as a failure: no process records it in its error
\* field, alone or inside the message about a failed child, and it never
\* leaves an execute() call.
C25_NotificationErrorsSwallowed ==
    \A p \in Procs :
        /\ ~Contains(error[p], HandlerError)
        /\ exc[p] # HandlerError

\* the position of the child c in the declaration order of p
DeclIndex(p, c) == CHOOSE i \in 1..Len(children[p]) : children[p][i][1] = c

\* the members of the current group of p whose execute() did not return true
FailedInGroup(p) == {c \in Range(CurGroup(p)) : result[c] # "true"}

\* the position in the history of the last process.failed event of c
FailedAt(c) ==
    LET at == {i \in 1..Len(log) : /\ log[i].type = "process.failed"
                                    /\ log[i].process_id = c}
    IN CHOOSE i \in at : \A j \in at : j <= i

\* C30: when the wait for a parallel group ends and several members have
\* failed, the error of the orchestration starts with the name of the
\* failed member that was declared first.
C30_FirstDeclaredFailureNamed ==
    [][\A p \in Orchs :
          (/\ pc[p] = "wait" /\ pc'[p] # "wait"
           /\ Len(CurGroup(p)) > 1
           /\ Cardinality(FailedInGroup(p)) > 1)
          => \E c \in FailedInGroup(p) :
                /\ \A d \in FailedInGroup(p) : DeclIndex(p, c) <= DeclIndex(p, d)
                /\ status'[p] = FAILED
                /\ Len(error'[p]) >= 3
                /\ SubSeq(error'[p], 1, 3) = <<"Process", Name(c), "failed:">>]_vars

\* both members of a parallel group failed, the second before the first,
\* and the root names the first
C30_Witness ==
    /\ pc[Root] = "idle"
    /\ Len(groups[Root]) = 1 /\ groups[Root][1] = <<1, 2>>
    /\ status[1] = FAILED /\ status[2] = FAILED
    /\ result[1] = "false" /\ result[2] = "false"
    /\ FailedAt(2) < FailedAt(1)
    /\ SubSeq(error[Root], 1, 3) = <<"Process", Name(1), "failed:">>

\* the connections i and j of the list conns are the only two that target
\* their common target, both sources hold a value and neither source is the
\* target of a connection
TwoWriters(conns, i, j, val) ==
    /\ i < j
    /\ conns[i][2] = conns[j][2]
    /\ \A k \in 1..Len(conns) : conns[k][2] = conns[i][2] => k \in {i, j}
    /\ val[conns[i][1]] # None /\ val[conns[j][1]] # None
    /\ \A k \in 1..Len(conns) : conns[k][2] \notin {conns[i][1], conns[j][1]}

\* C29: when two connections target the same parameter, both sources hold
\* a value and neither source is a target, the target holds after the
\* resolution pass the value of the source of the later connection.
C29_LastWriterWins ==
    [][pc'[Root] = "resolved" =>
          \A i, j \in 1..Len(connections[Root]) :
              TwoWriters(connections[Root], i, j, value)
                  => value'[connections[Root][j][2]]
                        = value[connections[Root][j][1]]]_vars

\* how often the callback h is subscribed in the list hs
Subscriptions(hs, h) == Cardinality({i \in 1..Len(hs) : hs[i] = h})

\* C26: an emit returns without an exception, appends the event to the
\* history, and calls every callback subscribed to the type of the event or
\* to "*" exactly once per subscription with the event, whether or not
\* another callback raises.
C26_SubscribersIsolated ==
    [][Len(log') > Len(log) =>
          LET ev == LastEvent(log')
              hs == subscribers[ev.type] \o subscribers["*"]
          IN /\ log' = Append(log, ev)
             /\ exc'[Root] = <<>>
             /\ \A h \in Handlers :
                   delivered'[h] =
                       delivered[h] \o [i \in 1..Subscriptions(hs, h) |-> ev]]_vars

\* an event was emitted with the raising callback subscribed to its type
\* ahead of a working one and a third callback on "*": all three were called
\* once
C26_Witness ==
    /\ subscribers["process.started"] = <<"failing_handler", "working_handler">>
    /\ subscribers["*"] = <<"handler">>
    /\ Len(log) = 1 /\ log[1].type = "process.started"
    /\ delivered["failing_handler"] = <<log[1]>>
    /\ delivered["working_handler"] = <<log[1]>>
    /\ delivered["handler"] = <<log[1]>>

\* the events of the process p in the history, in order
EventsOf(p) == LET own(e) == e.process_id = p IN SelectSeq(log, own)

\* every started event is followed by one terminal event of the same
\* process before its next started event (the last one may still be open)
StartedThenEnded ==
    \A p \in Procs : \A i \in 1..Len(EventsOf(p)) :
        (EventsOf(p)[i].type = "process.started") <=> (i % 2 = 1)

\* how many events of the types ts the history holds for the class cls
Ended(cls, ts) ==
    Cardinality({i \in 1..Len(log) :
                    log[i].process_class = cls /\ log[i].type \in ts})

\* get_aggregated_metrics(cls), with zero counters for a class without entry
Aggregated(cls) ==
    IF cls \in DOMAIN aggregated THEN aggregated[cls]
    ELSE [total_executions |-> 0, successful_executions |-> 0,
          failed_executions |-> 0]

\* C27: the counters of every class add up, and after started events that
\* were each followed by one terminal event they count the terminal, the
\* completed and the failed events of the class.
C27_AggregatedCounts ==
    \A cls \in {"Workflow", "Step"} :
        LET a == Aggregated(cls) IN
        /\ a.total_executions = a.successful_executions + a.failed_executions
        /\ StartedThenEnded =>
              /\ a.total_executions =
                    Ended(cls, {"process.completed", "process.failed"})
              /\ a.successful_executions = Ended(cls, {"process.completed"})
              /\ a.failed_executions = Ended(cls, {"process.failed"})

\* two processes of one class were started, one completed and one failed
C27_Witness ==
    /\ StartedThenEnded
    /\ Len(log) = 4
    /\ Aggregated("Step").total_executions = 2
    /\ Aggregated("Step").successful_executions = 1
    /\ Aggregated("Step").failed_executions = 1
    /\ {1, 2} \subseteq DOMAIN metrics
    /\ metrics[1].status # metrics[2].status

\* whether the event e passes the filters of a get_events call (None: no
\* filter)
Matches(e, process_id, event_type) ==
    /\ process_id = None \/ IdArg(e.process_id) = process_id
    /\ event_type = None \/ IdArg(e.type) = event_type

\* C28: get_events leaves the history as it is and returns the events that
\* match the process id and the event type, the most recent first; with a
\* limit n >= 0 it returns the n most recent of them, or all when there are
\* fewer.
C28_GetEvents ==
    [][call'.op = "get_events" =>
          LET hit(e) == Matches(e, call'.param[1], call'.param[2])
              found == SelectSeq(log, hit)
              n == call'.arg
          IN /\ log' = log
             /\ Len(ret') = IF n = None \/ n[2] > Len(found) THEN Len(found)
                            ELSE n[2]
             /\ \A i \in 1..Len(ret') : ret'[i] = found[Len(found) - i + 1]]_vars

\* the connections of the list conns that target the parameter t
Targeting(conns, t) == {i \in 1..Len(conns) : conns[i][2] = t}

\* C31: a resolution pass skips every connection whose source holds no
\* value: a parameter that is the target only of connections whose sources
\* hold no value keeps the value it had before the pass, as a constant
\* written to a child's input at composition time does.
C31_NullSourceSkipped ==
    [][pc'[Root] = "resolved" =>
          \A t \in ResolveParams :
              (\A i \in Targeting(connections[Root], t) :
                    value'[connections[Root][i][1]] = None)
                 => value'[t] = value[t]]_vars

\* a pass has run over a connection from a parameter without a value to
\* the input of child 2, which still holds its constant
C31_Witness ==
    /\ pc[Root] = "resolved"
    /\ Targeting(connections[Root], In(2)) # {}
    /\ \A i \in Targeting(connections[Root], In(2)) :
          value[connections[Root][i][1]] = None
    /\ value[In(2)] = IntV(2)

\* the Parameter objects the ParameterSets of the process p hold
Held(p) == Inputs(pset, p) \cup Outputs(pset, p)

\* C32: no Parameter object is held by the ParameterSets of two processes,
\* and a step that locks or unlocks the inputs of processes leaves the
\* lock state of every parameter another process holds as it was.
C32_ExclusiveOwnership ==
    /\ \A p, r \in Procs : p # r => Held(p) \cap Held(r) = {}

\* C33: when the root's execute() has ended and the leaf of the nested
\* orchestration is FAILED, the inner and the outer orchestration are
\* FAILED as well, the three execute() calls returned False, and the
\* root's error holds the inner orchestration's name and the leaf's error.
C33_NestedFailurePropagates ==
    (cfg.nested /\ runs = 1 /\ pc[Root] = "idle" /\ status[Leaf] = FAILED)
        => /\ status[Inner] = FAILED /\ status[Root] = FAILED
           /\ \A p \in {Leaf, Inner, Root} : result[p] = "false"
           /\ Contains(error[Root], <<Name(Inner)>>)
           /\ Contains(error[Root], error[Leaf])

\* C34: the error field of a process is set exactly when its status is
\* FAILED, in every state of every sequence of execute() calls.
C34_ErrorIffFailed ==
    \A p \in Procs : (error[p] # <<>>) <=> (status[p] = FAILED)

\* C35: when the first execution of the pipeline has ended FAILED because
\* a step failed, none of the pipeline's own output parameters holds a
\* value: nothing was written to them in that execution.
C35_NoOutputOnChildFailure ==
    (/\ runs = 1
     /\ status[Root] = FAILED
     /\ pc[Root] \in {"failing", "idle"}
     /\ \E c \in ChildrenOf(Root) : status[c] = FAILED)
        => \A q \in Outputs(pset, Root) : value[q] = None

\* the connections of p whose source holds a value that does not satisfy
\* the declared type of the target
Mismatched(p) ==
    {i \in 1..Len(connections[p]) :
        /\ value[connections[p][i][1]] # None
        /\ ~SatisfiesType(value[connections[p][i][1]],
                          param_type(connections[p][i][2]))}

TypeMessages == {SetterMessage("TypeError", q) : q \in Params}

\* C36: a resolution pass before a group that meets a connection whose
\* source value does not satisfy the type of its target ends the
\* orchestration FAILED: no member of the group is started, the target keeps
\* its value, and the execute() that failed this way returns False.
C36_MismatchFailsResolution ==
    /\ [][\A p \in Orchs :
             (ResolveAndLaunch(p) /\ Mismatched(p) # {}) =>
                 /\ status'[p] = FAILED /\ pc'[p] = "failing"
                 /\ error'[p] \in TypeMessages
                 /\ \A c \in Range(CurGroup(p)) :
                       /\ pc'[c] = pc[c] /\ status'[c] = status[c]
                       /\ calls'[c] = calls[c]
                 /\ \A i \in Mismatched(p) :
                       value'[connections[p][i][2]] = value[connections[p][i][2]]]_vars
    /\ [](\A p \in Orchs :
             (pc[p] = "idle" /\ status[p] = FAILED /\ error[p] \in TypeMessages)
                 => result[p] = "false")

Terminal == {"process.completed", "process.failed"}

\* the positions in the event sequence w of the events of type t that the
\* process p emitted
At(w, p, t) == {i \in 1..Len(w) : w[i].process_id = p /\ w[i].type = t}

\* C37: in the events of the last execution of an orchestration, every
\* event of a child comes after the orchestration's started event and
\* before its terminal event, every terminal event of a child follows a
\* started event of that child, and it lies after the group_started of
\* the child's group and before the group_completed of that group, if one
\* was emitted.
C37_EventsNested ==
    \A p \in Orchs :
        LET w == EventsSince(p) IN
        \A i \in 1..Len(w) :
            w[i].process_id \in ChildrenOf(p) =>
                LET c == w[i].process_id
                    k == GroupOf(p, c) - 1
                    announced == {j \in At(w, p, "process.group_started") :
                                      w[j].group_index = k}
                    completed == {j \in At(w, p, "process.group_completed") :
                                      w[j].group_index = k}
                IN /\ w[1].process_id = p /\ w[1].type = "process.started"
                   /\ \A j \in 1..(i - 1) :
                         w[j].process_id = p => w[j].type \notin Terminal
                   /\ w[i].type \in Terminal =>
                         /\ \E j \in At(w, c, "process.started") : j < i
                         /\ \E j \in announced : j < i
                         /\ \A j \in completed : i < j

\* the root has returned True from a parallel group whose second member
\* ended before the first one
C37_Witness ==
    /\ pc[Root] = "idle" /\ result[Root] = "true"
    /\ Len(groups[Root]) = 1 /\ Len(groups[Root][1]) = 2
    /\ LET w == EventsSince(Root) IN
       \E i, j \in 1..Len(w) :
          /\ i < j
          /\ w[i].process_id = 2 /\ w[i].type \in Terminal
          /\ w[j].process_id = 1 /\ w[j].type \in Terminal

\* the type of the event a process sends when its execute() reaches pc
SentAt(at) ==
    CASE at = "started" -> "process.started"
      [] at = "failing" -> "process.failed"
      [] at = "completing" -> "process.completed"
      [] at = "gs" -> "process.group_started"
      [] at = "gc" -> "process.group_completed"
      [] OTHER -> ""

\* the processes that send an event in the step
Senders == {p \in Procs : pc'[p] # pc[p] /\ SentAt(pc'[p]) # ""}

C39_ResolutionIdempotent ==
    pc[Root] = "resolved"
        => resolve(connections[Root], 1, value).val = value

\* C40: with the collector subscribed, the entry of a process whose
\* execute() has returned has the status completed when the process is
\* COMPLETED and the status failed and the error of the process when it is
\* FAILED, and the entry of a RUNNING process has the status running.
C40_CollectorFollowsStatus ==
    \A p \in Procs :
        /\ (pc[p] = "idle" /\ result[p] \in {"true", "false"}) =>
              /\ p \in DOMAIN metrics
              /\ status[p] = COMPLETED => metrics[p].status = "completed"
              /\ status[p] = FAILED =>
                    metrics[p].status = "failed" /\ metrics[p].error = error[p]
        /\ status[p] = RUNNING =>
              p \in DOMAIN metrics /\ metrics[p].status = "running"

\* C40 amended: the entry of a process whose execute() has returned has the
\* status completed when the process is COMPLETED and the status failed
\* and the error of the process when it is FAILED; the entry of a RUNNING
\* process has the status running from the moment the collector's callback
\* has run for its started event, and until then the process has no entry
\* or the entry of its previous execution.
C40_CollectorFollowsEvents ==
    \A p \in Procs :
        /\ (pc[p] = "idle" /\ result[p] \in {"true", "false"}) =>
              /\ p \in DOMAIN metrics
              /\ status[p] = COMPLETED => metrics[p].status = "completed"
              /\ status[p] = FAILED =>
                    metrics[p].status = "failed" /\ metrics[p].error = error[p]
        /\ (status[p] = RUNNING /\ EmitReturned(p)) =>
              p \in DOMAIN metrics /\ metrics[p].status = "running"
        /\ (status[p] = RUNNING /\ ~EmitReturned(p)) =>
              (p \in DOMAIN metrics => metrics[p].status \in {"completed", "failed"})

\* the root is RUNNING and waits for its second group, its first child has
\* returned True and its second child False, the collector's callbacks
\* have run for every event, and the collector holds the three entries
C40_Witness ==
    /\ pc[Root] = "wait" /\ status[Root] = RUNNING /\ pending = <<>>
    /\ pc[1] = "idle" /\ result[1] = "true"
    /\ pc[2] = "idle" /\ result[2] = "false"
    /\ {Root, 1, 2} \subseteq DOMAIN metrics
    /\ metrics[Root].status = "running"
    /\ metrics[1].status = "completed"
    /\ metrics[2].status = "failed" /\ metrics[2].error = error[2]
====
